---- MODULE Spec2Model ----
(***************************************************************************)
(* Model of the campaign cache (backend/database.py: the campaigns table,  *)
(* upsert_campaigns, get_cached_campaigns, clear_cache) and of the refresh *)
(* orchestration of the dashboard endpoint (backend/main.py:               *)
(* get_dashboard_data, clear_cache) on top of the multi-region service     *)
(* (backend/mailchimp_service.py: MultiRegionMailchimpService).            *)
(*                                                                         *)
(* Python values are modelled as follows.  A dict is a function whose      *)
(* DOMAIN is the set of keys present.  None is the string "None".  An      *)
(* ISO-8601 text is a sequence whose first element is the value of its     *)
(* fixed-width "YYYY-MM-DDTHH:MM:SS" prefix (an integer; one unit is one   *)
(* day) and whose remaining elements are the characters that follow it:    *)
(* "+" opens the "+00:00" offset of an upstream send_time, "." opens the   *)
(* microseconds that datetime.isoformat() prints when they are not zero.   *)
(* A JSON text is the sequence of its <<key, value>> members.              *)
(***************************************************************************)
EXTENDS Integers, Sequences, FiniteSets, Bags, TLC

VARIABLES
    store,      \* the campaigns table: a bag of rows (a row with a NULL id may repeat)
    req,        \* the request each worker serves: parameters, position, locals
    started,    \* number of requests begun so far
    fresh,      \* history: what the live refresh of one region that found the
                \* table empty returned (and the number of that request), while
                \* the table is as that refresh left it
    agg,        \* the report aggregation of one client: its input, the batch it
                \* is in, the state of every report fetch, its results
    listing,    \* the campaign listing of one client: its parameters, the
                \* upstream total, the pages requested, the campaigns gathered
    segs,       \* the segment names of one client: its _segment_cache, the
                \* threads that list campaigns through it, and (history) the
                \* calls made to the upstream segment endpoint
    sync,       \* the sync of all regions in progress: the background task
                \* of POST /api/sync or the loop of POST /api/cache/populate
    txn,        \* the call of upsert_campaigns in progress, statement by
                \* statement: its arguments, its connection, and (history)
                \* the table at the call
    svc,        \* the process of the service: its environment, the regions and
                \* clients of mailchimp_service, and the last answer it gave
    http,       \* the upstream request of one _get: the attempts made and their
                \* outcomes, the retries left, what _get returned
    users,      \* the users table and the user-management requests of the admins:
                \* the rows, the ids handed out, the position of each request
    links       \* the shared_links table and those who open the links: the rows,
                \* the time, the last access and its answer

\* the state of the per-region client, of the sync of all regions and of the
\* connection of an upsert
clientVars == <<agg, listing, segs, sync, txn, svc, http, users, links>>

\* the state of the endpoints and of the store
appVars == <<store, req, started, fresh>>

\* everything but the aggregation, and everything but the listing
exceptAgg == <<appVars, listing, segs, sync, txn, svc, http, users, links>>
exceptListing == <<appVars, agg, segs, sync, txn, svc, http, users, links>>
exceptSegs == <<appVars, agg, listing, sync, txn, svc, http, users, links>>
exceptSync == <<req, started, fresh, agg, listing, segs, txn, svc, http, users, links>>
exceptTxn == <<req, started, fresh, agg, listing, segs, sync, svc, http, users, links>>
exceptSvc == <<appVars, agg, listing, segs, sync, txn, http, users, links>>
exceptHttp == <<appVars, agg, listing, segs, sync, txn, svc, users, links>>
exceptUsers == <<appVars, agg, listing, segs, sync, txn, svc, http, links>>
exceptLinks == <<appVars, agg, listing, segs, sync, txn, svc, http, users>>

vars == <<store, req, started, fresh, agg, listing, segs, sync, txn, svc, http, users, links>>

--------------------------------------------------------------------------
(* Bounds of the model *)

MaxOps == 3          \* requests begun in one behaviour
MaxNullRows == 2     \* rows with a NULL id the table may hold
Today == 4           \* the day the requests are served on
MaxCalls == 4        \* calls of the store's functions in one behaviour
MaxCampaigns == 6    \* campaign summaries handed to one report aggregation
MaxTotal == 6        \* campaigns the upstream account holds in the window
MaxCount == 5        \* the count (cap) a caller hands to get_campaigns
MaxListings == 3     \* listings begun through one client in one behaviour
MaxUpserts == 3      \* calls of upsert_campaigns followed statement by statement
MaxSyncs == 1        \* syncs of all regions begun in one behaviour
MaxEnvChanges == 1   \* changes of the environment after the service was built
MaxGets == 2         \* calls of _get followed attempt by attempt
MaxDashboards == 2   \* dashboard requests followed to their answer
MaxUsers == 3        \* users ever created, the default admin included
MaxAdminOps == 3     \* user-management requests begun in one behaviour
MaxLinks == 1        \* shared links created in one behaviour
MaxAccesses == 2     \* times one shared link is opened
LastDay == 1         \* the day after which no shared link is created or opened

(* Program constants, scaled down so that the cap is reached within the bounds:
   LIMIT 1000 of get_cached_campaigns and count=1000 of get_campaigns *)
RowCap == 2
FetchCap == 2

(* batch_size = 10 and max_workers=5 of MailchimpClient.get_dashboard_data,
   scaled down alike: the pool is smaller than the batch *)
BatchSize == 3
PoolSize == 2

(* batch_size = 1000 of MailchimpClient.get_campaigns (the page size), scaled *)
PageSize == 2

(* Retry(total=3, ...) of create_session_with_retry *)
RetryTotal == 3

None == "None"

\* the workers that serve the requests, one request at a time each
Workers == {"w1"}

Min(a, b) == IF a <= b THEN a ELSE b

--------------------------------------------------------------------------
(* The configured regions and their clients *)

\* MultiRegionMailchimpService.REGIONS: the regions whose credentials are present
REGIONS == <<"US", "EU">>

\* MultiRegionMailchimpService.clients: one client per region of REGIONS
clients == {REGIONS[i] : i \in 1..Len(REGIONS)}

\* get_client(region): the client, or None
get_client(region) == IF region \in clients THEN region ELSE None

\* the region parameters a request may carry: a configured region, a region
\* without client, or no region (all regions)
RegionParams == clients \cup {"XX", None}

\* the days parameters a request may carry
DaysParams == {1, 3}

--------------------------------------------------------------------------
(* Text and time *)

\* order of the characters that may follow the fixed-width prefix (ASCII)
CharCode(c) == CASE c = "+" -> 43 [] c = "." -> 46

\* datetime.isoformat(): the microseconds are printed only when not zero
isoformat(t) == IF t.micro = 0 THEN <<t.day>> ELSE <<t.day, ".">>

\* the values datetime.utcnow() may return
Clock == [day : {Today}, micro : {0, 1}]

\* timedelta(days=days) subtracted from a datetime
MinusDays(t, days) == [day |-> t.day - days, micro |-> t.micro]

\* SQLite's comparison of two TEXT values, a >= b: memcmp, and the shorter
\* text first when it is a prefix of the other
TextGE(a, b) ==
    \/ a[1] > b[1]
    \/ /\ a[1] = b[1]
       /\ \/ Len(b) = 1
          \/ Len(a) > 1 /\ CharCode(a[2]) >= CharCode(b[2])

--------------------------------------------------------------------------
(* Campaign dicts as the per-region client returns them *)

\* the keys of a campaign dict in insertion order: the summary keys set by
\* get_campaigns, the report keys merged by fetch_report_with_delay ({**camp,
\* **report}), the region stamped by upsert_campaigns
KeyOrder == <<"id", "title", "send_time", "opens", "region">>

\* an upstream send_time: UTC, with the "+00:00" offset
SendTime(day) == <<day, "+">>

\* one merged campaign: the summary alone when the report fetch failed
Campaign(id, title, day, withReport) ==
    IF withReport
    THEN [k \in {"id", "title", "send_time", "opens"} |->
            CASE k = "id" -> id [] k = "title" -> title
              [] k = "send_time" -> SendTime(day) [] k = "opens" -> "7"]
    ELSE [k \in {"id", "title", "send_time"} |->
            CASE k = "id" -> id [] k = "title" -> title
              [] k = "send_time" -> SendTime(day)]

\* the campaigns an upstream account may report, newest first: c2 was sent on
\* day 3; a campaign without id, sent on day 3, is seen under two titles; c1
\* was sent on day 1 and is seen with its report under title "a" or, renamed
\* and with its report fetch failed, under title "b"
Catalogue ==
    << Campaign("c2", "a", 3, TRUE),
       Campaign(None, "a", 3, FALSE), Campaign(None, "b", 3, FALSE),
       Campaign("c1", "a", 1, TRUE), Campaign("c1", "b", 1, FALSE) >>

\* dict.get(key): None when the key is absent
Get(d, key) == IF key \in DOMAIN d THEN d[key] ELSE None

\* a stamp that keeps the region a dict already carries (setdefault)
Stamp_KeepRegion(camp, region) ==
    [k \in DOMAIN camp \cup {"region"} |->
        IF k = "region" THEN (IF "region" \in DOMAIN camp THEN camp[k] ELSE region)
        ELSE camp[k]]

\* camp['region'] = region
Stamp(camp, region) ==
    [k \in DOMAIN camp \cup {"region"} |-> IF k = "region" THEN region ELSE camp[k]]

\* json.dumps(camp): the members in insertion order
JsonDumps(camp) ==
    LET present == SelectSeq(KeyOrder, LAMBDA k : k \in DOMAIN camp)
    IN  [i \in 1..Len(present) |-> <<present[i], camp[present[i]]>>]

\* json.loads(text): the dict of the members
JsonLoads(text) ==
    [k \in {text[i][1] : i \in 1..Len(text)} |->
        LET last == CHOOSE i \in 1..Len(text) :
                        /\ text[i][1] = k
                        /\ \A j \in (i+1)..Len(text) : text[j][1] # k
        IN  text[last][2]]

--------------------------------------------------------------------------
(* The campaigns table: CREATE TABLE campaigns (id TEXT, region TEXT, title
   TEXT, send_time TEXT, data_json TEXT, updated_at, PRIMARY KEY (id, region)) *)

\* one row of the table (updated_at, which no query reads, is left out)
Row(id, region, title, send_time, data_json) ==
    [id |-> id, region |-> region, title |-> title,
     send_time |-> send_time, data_json |-> data_json]

\* the rows of the table as a set, and their number
Rows(tbl) == BagToSet(tbl)
RowCount(tbl) == BagCardinality(tbl)

\* PRIMARY KEY (id, region) of an ordinary rowid table: the uniqueness is that
\* of a UNIQUE index, in which a NULL is distinct from every value and from
\* every other NULL, and the columns are not NOT NULL
Conflicts(old, new) ==
    /\ new.id # None
    /\ new.region # None
    /\ old.id = new.id
    /\ old.region = new.region

\* an insert that first deletes the rows the region had
InsertOrUpdate_Replace(tbl, new) ==
    [r \in {o \in BagToSet(tbl) : o.region # new.region} |-> CopiesIn(r, tbl)]
        (+) SetToBag({new})

\* INSERT ... ON CONFLICT(id, region) DO UPDATE SET title=excluded.title,
\* send_time=excluded.send_time, data_json=excluded.data_json
InsertOrUpdate(tbl, new) ==
    IF \E old \in Rows(tbl) : Conflicts(old, new)
    THEN LET old == CHOOSE o \in Rows(tbl) : Conflicts(o, new)
             updated == [old EXCEPT !.title = new.title,
                                    !.send_time = new.send_time,
                                    !.data_json = new.data_json]
         IN  (tbl (-) SetToBag({old})) (+) SetToBag({updated})
    ELSE tbl (+) SetToBag({new})

\* the body of the loop of upsert_campaigns for one campaign
UpsertOne(tbl, camp, region) ==
    LET c_id == Get(camp, "id")
        title == Get(camp, "title")
        send_time == Get(camp, "send_time")
        stamped == Stamp(camp, region)
        data_json == JsonDumps(stamped)
    IN  InsertOrUpdate(tbl, Row(c_id, region, title, send_time, data_json))

\* upsert_campaigns(campaigns_data, region): the table after the commit
RECURSIVE UpsertFrom(_, _, _, _)
UpsertFrom(tbl, campaigns_data, region, i) ==
    IF i > Len(campaigns_data) THEN tbl
    ELSE UpsertFrom(UpsertOne(tbl, campaigns_data[i], region), campaigns_data, region, i + 1)

upsert_campaigns(tbl, campaigns_data, region) == UpsertFrom(tbl, campaigns_data, region, 1)

\* an upsert that stamps a copy and leaves the caller's list as it was
Stamped_Copy(campaigns_data, region) ==
    campaigns_data

\* what upsert_campaigns leaves in the caller's list: every dict stamped in place
Stamped(campaigns_data, region) ==
    [i \in 1..Len(campaigns_data) |-> Stamp(campaigns_data[i], region)]

\* the rows a WHERE clause selects, as a bag
Where(tbl, Test(_)) ==
    LET keep == {r \in Rows(tbl) : Test(r)}
    IN  [r \in keep |-> CopiesIn(r, tbl)]

\* a clear that forgets the WHERE clause
AfterClear_All(tbl, region) ==
    EmptyBag

\* clear_cache(region): DELETE FROM campaigns [WHERE region = ?]
AfterClear(tbl, region) ==
    IF region # None
    THEN Where(tbl, LAMBDA r : r.region # region)
    ELSE EmptyBag

\* cursor.rowcount of the DELETE: the rows the statement matched
deleted_count(tbl, region) ==
    IF region # None
    THEN RowCount(Where(tbl, LAMBDA r : r.region = region))
    ELSE RowCount(tbl)

\* ORDER BY send_time DESC LIMIT n: the first n rows of every order of the
\* selected rows in which no row precedes one with a greater send_time (rows
\* with equal send_time come in either order)
RECURSIVE OrderByDescLimit(_, _)
OrderByDescLimit(sel, n) ==
    IF n = 0 \/ sel = EmptyBag THEN {<< >>}
    ELSE LET first == {r \in Rows(sel) :
                          \A o \in Rows(sel) : TextGE(r.send_time, o.send_time)}
         IN  UNION { {<<r>> \o rest :
                        rest \in OrderByDescLimit(sel (-) SetToBag({r}), n - 1)}
                     : r \in first }

\* a WHERE clause that forgets the region: "send_time >= ?" alone
InWindow_AnyRegion(r, region, cutoff_date) ==
    TextGE(r.send_time, cutoff_date)

\* the WHERE clause of get_cached_campaigns
InWindow(r, region, cutoff_date) ==
    /\ region # None => r.region = region
    /\ TextGE(r.send_time, cutoff_date)

\* get_cached_campaigns(days, region) at time now: the lists it may return
get_cached_campaigns(tbl, days, region, now) ==
    LET cutoff_date == isoformat(MinusDays(now, days))
        selected == Where(tbl, LAMBDA r : InWindow(r, region, cutoff_date))
    IN  { [i \in 1..Len(rows) |-> JsonLoads(rows[i].data_json)] :
            rows \in OrderByDescLimit(selected, RowCap) }

--------------------------------------------------------------------------
(* The upstream accounts, seen through the per-region clients *)

\* the id of a campaign dict
IdOf(camp) == Get(camp, "id")

\* MailchimpClient.get_dashboard_data(days): the lists of merged campaigns
\* a client may return.  An upstream id is unique within its account,
\* get_campaigns(count=1000) lists at most FetchCap campaigns, and one list
\* stands for all the orders its reports may complete in
Listings ==
    { l \in UNION { [1..n -> 1..Len(Catalogue)] : n \in 0..FetchCap } :
        \A i, j \in 1..Len(l) :
            i < j => l[i] < l[j] /\ IdOf(Catalogue[l[i]]) # IdOf(Catalogue[l[j]]) }

client_get_dashboard_data == { [i \in 1..Len(l) |-> Catalogue[l[i]]] : l \in Listings }

\* MultiRegionMailchimpService.get_dashboard_data(days, region): the results
\* it may return, each with the number of client fetches made.  For one region:
\* the client's data, or [] when the region has no client.  For all regions: a
\* dict with one entry per region of REGIONS.  The result is kept as a dict
\* keyed by region in both cases.
service_get_dashboard_data(region) ==
    IF region # None
    THEN IF get_client(region) # None
         THEN { [data |-> [g \in {region} |-> l], fetches |-> 1] :
                  l \in client_get_dashboard_data }
         ELSE { [data |-> [g \in {region} |-> << >>], fetches |-> 0] }
    ELSE { [data |-> d, fetches |-> Len(REGIONS)] :
             d \in [clients -> client_get_dashboard_data] }

--------------------------------------------------------------------------
(* Requests *)

\* a worker with no request
Idle ==
    [pc |-> "idle", seq |-> 0, op |-> None, days |-> 0, region |-> None,
     force_refresh |-> FALSE, recursed |-> FALSE, idx |-> 0,
     data |-> << >>, fetched |-> << >>, now |-> [day |-> 0, micro |-> 0],
     cached |-> 0, fetches |-> 0, upserts |-> 0, on_empty |-> FALSE,
     error |-> FALSE, resp |-> [source |-> None]]

\* no forced refresh to remember
NoFresh == [region |-> None, data |-> << >>, seq |-> 0]

\* number of rows with a NULL id in a table, and of campaigns without id
\* that the requests in flight have still to write
NullRows(tbl) == RowCount(Where(tbl, LAMBDA r : r.id = None))
NullIn(l) == Cardinality({i \in 1..Len(l) : IdOf(l[i]) = None})
RECURSIVE Sum(_)
Sum(f) ==
    IF DOMAIN f = {} THEN 0
    ELSE LET x == CHOOSE y \in DOMAIN f : TRUE
         IN  f[x] + Sum([y \in DOMAIN f \ {x} |-> f[y]])
NullInData(d) == Sum([g \in DOMAIN d |-> NullIn(d[g])])
PendingNull ==
    Sum([w \in {v \in Workers : req[v].pc = "upsert"} |-> NullInData(req[w].data)])

\* the table stays within MaxNullRows rows without id
WithinBounds(d) == NullRows(store) + PendingNull + NullInData(d) <= MaxNullRows

\* a request may begin on worker w
CanBegin(w) == req[w].pc = "idle" /\ started < MaxOps

--------------------------------------------------------------------------
(* GET /api/dashboard: get_dashboard_data(days, region, force_refresh) *)

\* a refresh that fetches once more when the fetch came back empty
AfterFetch_Again(r, got) ==
    LET empty == \A g \in DOMAIN got.data : got.data[g] = << >>
    IN  [r EXCEPT !.pc = "upsert", !.idx = 1, !.data = got.data, !.fetched = got.data,
                  !.fetches = r.fetches + got.fetches
                                + (IF empty THEN got.fetches ELSE 0)]

\* the request r after the live fetch of the force_refresh branch: the
\* fetched data is held for the upsert that follows (fetched keeps it as the
\* service returned it, for the properties)
AfterFetch(r, got) ==
    [r EXCEPT !.pc = "upsert", !.idx = 1, !.data = got.data, !.fetched = got.data,
              !.fetches = r.fetches + got.fetches]

\* force_refresh=True: the call of the service, up to the first upsert
ForceRefresh(w, region) ==
    /\ CanBegin(w)
    /\ \E got \in service_get_dashboard_data(region) :
          /\ WithinBounds(got.data)
          /\ req' = [req EXCEPT ![w] =
                AfterFetch([Idle EXCEPT !.op = "dashboard", !.seq = started + 1,
                                        !.region = region,
                                        !.force_refresh = TRUE], got)]
    /\ started' = started + 1
    /\ UNCHANGED <<store, fresh>>
    /\ UNCHANGED clientVars

\* the regions whose data the force_refresh branch writes, in the order of
\* the writes: the one region, or the keys of all_data
WriteOrder(r) == IF r.region # None THEN <<r.region>> ELSE REGIONS

\* database.upsert_campaigns(data, region=region) for the next region to
\* write: one transaction, which also stamps the region on the dicts written
Upsert(w) ==
    LET r == req[w]
        reg == WriteOrder(r)[r.idx]
    IN  /\ r.pc = "upsert"
        /\ store' = upsert_campaigns(store, r.data[reg], reg)
        /\ req' = [req EXCEPT ![w] =
              [r EXCEPT !.data = [r.data EXCEPT ![reg] = Stamped(r.data[reg], reg)],
                        !.upserts = r.upserts + 1,
                        !.idx = r.idx + 1,
                        !.on_empty = r.region # None /\ r.fetches = 1 /\ store = EmptyBag,
                        !.pc = IF r.idx = Len(WriteOrder(r)) THEN "respond" ELSE "upsert"]]
        /\ fresh' = NoFresh
        /\ UNCHANGED started
        /\ UNCHANGED clientVars

\* return {"source": "mailchimp", "region": region, "data": data}
Respond(w) ==
    LET r == req[w]
        resp == [source |-> "mailchimp", region |-> r.region, data |-> r.data]
    IN  /\ r.pc = "respond"
        /\ req' = [req EXCEPT ![w] = [r EXCEPT !.pc = "done", !.resp = resp]]
        /\ fresh' = IF r.on_empty
                    THEN [region |-> r.region, data |-> resp.data[r.region],
                          seq |-> r.seq]
                    ELSE fresh
        /\ UNCHANGED <<store, started>>
        /\ UNCHANGED clientVars

\* a cache branch that refreshes whatever the cache read returned
CacheEmpty_Always(data) ==
    TRUE

\* "if not data": the cache read of the requested region came back empty
CacheEmpty(data) == Len(data) = 0

\* force_refresh=False with a region: the cache read and, when it comes back
\* empty, the recursive call with force_refresh=True up to its upsert
CacheRead(w, days, region) ==
    /\ CanBegin(w)
    /\ region # None
    /\ \E now \in Clock :
       \E data \in get_cached_campaigns(store, days, region, now) :
          LET r == [Idle EXCEPT !.op = "dashboard", !.seq = started + 1, !.days = days,
                                !.region = region, !.now = now, !.cached = Len(data)]
          IN  IF CacheEmpty(data)
              THEN \E got \in service_get_dashboard_data(region) :
                      /\ WithinBounds(got.data)
                      /\ req' = [req EXCEPT ![w] =
                            AfterFetch([r EXCEPT !.recursed = TRUE], got)]
              ELSE req' = [req EXCEPT ![w] =
                      [r EXCEPT !.pc = "done",
                                !.resp = [source |-> "database", region |-> region,
                                          data |-> [g \in {region} |-> data]]]]
    /\ started' = started + 1
    /\ UNCHANGED <<store, fresh>>
    /\ UNCHANGED clientVars

\* total_campaigns = sum(len(campaigns) for campaigns in all_data.values())
total_campaigns(all_data) == Sum([g \in DOMAIN all_data |-> Len(all_data[g])])

\* the heuristic with "<=" for "<"
CacheSparse_Inclusive(all_data) ==
    total_campaigns(all_data) <= Len(REGIONS)

\* "if total_campaigns < len(mailchimp_service.REGIONS)"
CacheSparse(all_data) == total_campaigns(all_data) < Len(REGIONS)

\* force_refresh=False without region, after the cache read of the last
\* region: the recursive call with force_refresh=True (days is dead from
\* there on and is dropped), or the cached data
Decide(w, r, all_data) ==
    LET read == [r EXCEPT !.data = all_data,
                          !.cached = Sum([g \in DOMAIN all_data |-> Len(all_data[g])])]
    IN  IF CacheSparse(all_data)
        THEN \E got \in service_get_dashboard_data(None) :
                /\ WithinBounds(got.data)
                /\ req' = [req EXCEPT ![w] =
                      AfterFetch([read EXCEPT !.recursed = TRUE, !.days = Idle.days], got)]
        ELSE req' = [req EXCEPT ![w] =
                [read EXCEPT !.pc = "done",
                             !.resp = [source |-> "database", region |-> None,
                                       data |-> all_data]]]

\* one turn of "for reg in REGIONS: all_data[reg] = get_cached_campaigns(days,
\* region=reg)" for the request r, which has read the regions before idx
ReadRegion(w, r) ==
    LET reg == REGIONS[r.idx]
    IN  \E now \in Clock :
        \E data \in get_cached_campaigns(store, r.days, reg, now) :
          LET all_data == (reg :> data) @@ r.data
          IN  IF r.idx = Len(REGIONS)
              THEN Decide(w, r, all_data)
              ELSE req' = [req EXCEPT ![w] =
                      [r EXCEPT !.data = all_data, !.idx = r.idx + 1]]

\* force_refresh=False without region: the request begins with the cache
\* read of the first region
CacheReadAll(w, days) ==
    /\ CanBegin(w)
    /\ ReadRegion(w, [Idle EXCEPT !.op = "dashboard", !.seq = started + 1,
                                   !.days = days, !.pc = "read", !.idx = 1])
    /\ started' = started + 1
    /\ UNCHANGED <<store, fresh>>
    /\ UNCHANGED clientVars

\* ... and goes on with the cache read of the next region
CacheReadNext(w) ==
    /\ req[w].pc = "read"
    /\ ReadRegion(w, req[w])
    /\ UNCHANGED <<store, started, fresh>>
    /\ UNCHANGED clientVars

--------------------------------------------------------------------------
(* POST /api/cache/clear: clear_cache(region) *)

ClearCache(w, region) ==
    /\ CanBegin(w)
    /\ store' = AfterClear(store, region)
    /\ req' = [req EXCEPT ![w] =
          [Idle EXCEPT !.op = "clear", !.seq = started + 1, !.region = region,
                       !.pc = "done",
                       !.resp = [status |-> "success",
                                 deleted_count |-> deleted_count(store, region),
                                 region |-> IF region # None THEN region ELSE "all regions"]]]
    /\ started' = started + 1
    /\ fresh' = NoFresh
    /\ UNCHANGED clientVars

--------------------------------------------------------------------------
(* The response is sent and the worker is free again *)

Finish(w) ==
    /\ req[w].pc = "done"
    /\ req' = [req EXCEPT ![w] = Idle]
    /\ UNCHANGED <<store, started, fresh>>
    /\ UNCHANGED clientVars

--------------------------------------------------------------------------

\* no aggregation in progress
NoAgg ==
    [pc |-> "idle", campaigns |-> << >>, i |-> 0, status |-> << >>,
     outcome |-> << >>, results |-> << >>]

\* no listing in progress
NoListing ==
    [pc |-> "idle", count |-> 0, total_items |-> 0, offset |-> 0,
     all_campaigns |-> << >>, requests |-> << >>, failed |-> FALSE,
     result |-> << >>]

--------------------------------------------------------------------------
(* GET /api/audiences: get_audiences(region) *)

\* client.get_lists(): the lists of the account, or [] when the call fails
get_lists == { << >>, <<[id |-> "l1", name |-> "n1"]>> }

\* HTTPException(status_code=404, detail="Region ... not found")
NotFound(region) == [status_code |-> 404, detail |-> <<"Region", region, "not found">>]

\* one region: 404 when it has no client, else its lists; all regions: the
\* lists of every region that has a client
GetAudiences(w, region) ==
    /\ CanBegin(w)
    /\ \E lists \in [clients -> get_lists] :
          req' = [req EXCEPT ![w] =
             [Idle EXCEPT !.op = "audiences", !.seq = started + 1,
                          !.region = region, !.pc = "done",
                          !.fetches = IF region = None THEN Len(REGIONS)
                                      ELSE IF get_client(region) # None THEN 1
                                      ELSE 0,
                          !.resp = IF region = None
                                   THEN [audiences |-> lists]
                                   ELSE IF get_client(region) # None
                                   THEN [region |-> region, audiences |-> lists[region]]
                                   ELSE NotFound(region)]]
    /\ started' = started + 1
    /\ UNCHANGED <<store, fresh>>
    /\ UNCHANGED clientVars

\* the threads that serve requests and share the client of a region
Threads == {"t1", "t2"}

\* the (list_id, segment_id) of the campaigns whose segment has an id and no
\* text; the list_id is '' when the recipients carry none
SegmentKeys == {<<"l1", "s1">>, <<"l1", "s2">>, <<"", "s1">>}

\* a thread that lists no campaigns
NoThread == [pc |-> "idle", todo |-> << >>, k |-> 0, segment_name |-> None]

\* a client just constructed: no _segment_cache attribute yet, no thread in
\* get_campaigns, no call made
NoSegs ==
    [has_cache |-> FALSE, cache |-> [key \in {} |-> None],
     thread |-> [t \in Threads |-> NoThread],
     calls |-> [key \in SegmentKeys |-> 0], begun |-> 0]

\* no sync of all regions in progress
NoSync ==
    [kind |-> None, pc |-> "idle", all_data |-> [g \in {} |-> << >>], idx |-> 0,
     fetched |-> {}, stored |-> {}, failed |-> {}, resp |-> [status |-> None],
     begun |-> 0]

\* no call of upsert_campaigns in progress
NoTxn ==
    [pc |-> "idle", campaigns_data |-> << >>, region |-> None, i |-> 0,
     conn |-> EmptyBag, before |-> EmptyBag, k |-> 0, rerun |-> FALSE,
     begun |-> 0]

\* the process before it starts: no environment, no service
NoService ==
    [pc |-> "off", env |-> [n \in {} |-> None], env0 |-> [n \in {} |-> None],
     REGIONS |-> << >>, clients |-> [g \in {} |-> None],
     last |-> [op |-> None, region |-> None, client |-> None, env |-> None,
              result |-> None],
     changes |-> 0]

\* no upstream request in progress
NoHttp ==
    [pc |-> "idle", method |-> None, total |-> 0, history |-> << >>,
     raised |-> None, result |-> None, begun |-> 0]

\* no user (user ids are the numbers of their creation, from 1 on)
NoUser == 0

\* no user-management request on a thread
NoRequest ==
    [pc |-> "idle", op |-> None, admin_id |-> NoUser, user_id |-> NoUser,
     role |-> None, email |-> None, result |-> [status |-> None]]

\* the users table after init_db: _init_default_admin has created the
\* default admin
InitialUsers ==
    [rows |-> [id \in {1} |-> [email |-> "admin@x", role |-> "admin"]],
     created |-> 1,
     thread |-> [t \in Threads |-> NoRequest],
     begun |-> 0]

\* no access to a shared link yet
NoAccess ==
    [op |-> None, token |-> 0, password |-> None,
     now |-> [day |-> 0, micro |-> 0], result |-> [status |-> None]]

\* the shared_links table after init_db, at midnight of day 0
NoLinks ==
    [rows |-> << >>, now |-> [day |-> 0, micro |-> 0], last |-> NoAccess]

Init ==
    /\ store = EmptyBag
    /\ req = [w \in Workers |-> Idle]
    /\ started = 0
    /\ fresh = NoFresh
    /\ agg = NoAgg
    /\ listing = NoListing
    /\ segs = NoSegs
    /\ sync = NoSync
    /\ txn = NoTxn
    /\ svc = NoService
    /\ http = NoHttp
    /\ users = InitialUsers
    /\ links = NoLinks

Next ==
    \/ \E w \in Workers, region \in RegionParams : ForceRefresh(w, region)
    \/ \E w \in Workers : Upsert(w)
    \/ \E w \in Workers : Respond(w)
    \/ \E w \in Workers, days \in DaysParams, region \in RegionParams :
          CacheRead(w, days, region)
    \/ \E w \in Workers, days \in DaysParams : CacheReadAll(w, days)
    \/ \E w \in Workers : CacheReadNext(w)
    \/ \E w \in Workers, region \in RegionParams : ClearCache(w, region)
    \/ \E w \in Workers, region \in RegionParams : GetAudiences(w, region)
    \/ \E w \in Workers : Finish(w)

Spec == Init /\ [][Next]_vars

--------------------------------------------------------------------------
(* The store on its own: the functions of backend/database.py called one
   after the other with any arguments (the region of a read or of a clear may
   be None, which main.py never passes to get_cached_campaigns) *)

\* another call may be made
CanCall == started < MaxCalls

\* upsert_campaigns(campaigns_data, region)
CallUpsertCampaigns(w, campaigns_data, region) ==
    /\ CanCall
    /\ NullRows(store) + NullIn(campaigns_data) <= MaxNullRows
    /\ store' = upsert_campaigns(store, campaigns_data, region)
    /\ req' = [req EXCEPT ![w] = Idle]
    /\ started' = started + 1
    /\ UNCHANGED fresh
    /\ UNCHANGED clientVars

\* clear_cache(region): returns the deleted count
CallClearCache(w, region) ==
    /\ CanCall
    /\ store' = AfterClear(store, region)
    /\ req' = [req EXCEPT ![w] =
          [Idle EXCEPT !.op = "clear_cache", !.region = region, !.pc = "done",
                       !.resp = [deleted_count |-> deleted_count(store, region)]]]
    /\ started' = started + 1
    /\ UNCHANGED fresh
    /\ UNCHANGED clientVars

\* get_cached_campaigns(days, region): returns the list read
CallGetCachedCampaigns(w, days, region) ==
    /\ CanCall
    /\ \E now \in Clock :
       \E data \in get_cached_campaigns(store, days, region, now) :
          req' = [req EXCEPT ![w] =
             [Idle EXCEPT !.op = "get_cached_campaigns", !.days = days,
                          !.region = region, !.now = now, !.pc = "done",
                          !.cached = Len(data), !.resp = [data |-> data]]]
    /\ started' = started + 1
    /\ UNCHANGED <<store, fresh>>
    /\ UNCHANGED clientVars

\* SELECT region, COUNT(*) FROM campaigns GROUP BY region: the rows are taken
\* one by one, each adding one to the count of its region
RECURSIVE GroupByRegion(_)
GroupByRegion(tbl) ==
    IF tbl = EmptyBag THEN [g \in {} |-> 0]
    ELSE LET r == CHOOSE o \in BagToSet(tbl) : TRUE
             rest == GroupByRegion(tbl (-) SetToBag({r}))
         IN  [g \in DOMAIN rest \cup {r.region} |->
                 (IF g \in DOMAIN rest THEN rest[g] ELSE 0)
                     + (IF g = r.region THEN 1 ELSE 0)]

\* statistics that count the different rows, not the rows
get_cache_stats_Distinct(tbl) ==
    [total |-> Cardinality(Rows(tbl)), by_region |-> GroupByRegion(tbl)]

\* get_cache_stats(): SELECT COUNT(*) FROM campaigns, and the counts by region
get_cache_stats(tbl) ==
    [total |-> BagCardinality(tbl), by_region |-> GroupByRegion(tbl)]

\* get_cache_stats(): returns the statistics
CallGetCacheStats(w) ==
    /\ CanCall
    /\ req' = [req EXCEPT ![w] =
          [Idle EXCEPT !.op = "get_cache_stats", !.pc = "done",
                       !.resp = get_cache_stats(store)]]
    /\ started' = started + 1
    /\ UNCHANGED <<store, fresh>>
    /\ UNCHANGED clientVars

\* the lists a caller may hand to upsert_campaigns: what a client returned,
\* as returned or after an earlier upsert_campaigns stamped its dicts in place
CampaignsData ==
    client_get_dashboard_data
        \cup { Stamped(l, g) : l \in client_get_dashboard_data, g \in clients }

StoreNext ==
    \/ \E w \in Workers, campaigns_data \in CampaignsData, region \in clients :
          CallUpsertCampaigns(w, campaigns_data, region)
    \/ \E w \in Workers, region \in RegionParams : CallClearCache(w, region)
    \/ \E w \in Workers, days \in DaysParams, region \in RegionParams :
          CallGetCachedCampaigns(w, days, region)
    \/ \E w \in Workers : CallGetCacheStats(w)

StoreSpec == Init /\ [][StoreNext]_vars

--------------------------------------------------------------------------
(* The report aggregation: MailchimpClient.get_dashboard_data(days), from the
   list get_campaigns returned to the list of merged campaigns *)

\* the ids of the campaign summaries of a listing, in its order (the fifth
\* repeats the first)
SummaryIds == <<"c1", "c2", "c3", "c4", "c1", "c5", "c6">>

\* the listing of n campaign summaries
Summaries(n) == [j \in 1..n |-> Campaign(SummaryIds[j], "a", 3, FALSE)]

\* what one report fetch may meet: the report; None from _get (timeout, HTTP
\* error after the retries); an exception inside get_campaign_report
Outcomes == {"report", "none", "raises"}

\* the dict get_campaign_report builds from the upstream report
Report == [k \in {"opens"} |-> "7"]

\* {**camp, **report}
Merge(camp, report) ==
    [k \in DOMAIN camp \cup DOMAIN report |->
        IF k \in DOMAIN report THEN report[k] ELSE camp[k]]

\* a report fetch that loses the campaign when it fails
fetch_report_with_delay_Lossy(camp, outcome) ==
    IF outcome = "report" THEN Merge(camp, Report) ELSE [k \in {} |-> None]

\* fetch_report_with_delay(camp): the merged campaign, or the summary alone
\* when the report is empty ("if report" fails) or the fetch raised (caught)
fetch_report_with_delay(camp, outcome) ==
    IF outcome = "report" THEN Merge(camp, Report) ELSE camp

\* the campaigns of the batch campaigns[i:i + batch_size] (i counts from 0)
BatchOf(a) == {j \in 1..Len(a.campaigns) : a.i < j /\ j <= a.i + BatchSize}

\* the report fetches in flight
InFlight(a) == {j \in 1..Len(a.campaigns) : a.status[j] = "running"}

\* a pool that starts every task at once
PoolHasRoom_Unbounded(a) ==
    TRUE

\* ThreadPoolExecutor(max_workers=5): a task starts when a worker is free
PoolHasRoom(a) == Cardinality(InFlight(a)) < PoolSize

\* get_dashboard_data is called: get_campaigns has returned n summaries;
\* "if not campaigns: return []"
Aggregate(n) ==
    /\ agg.pc = "idle"
    /\ agg' = IF n = 0
              THEN [NoAgg EXCEPT !.pc = "returned"]
              ELSE [NoAgg EXCEPT !.pc = "submit", !.campaigns = Summaries(n),
                                 !.status = [j \in 1..n |-> "new"],
                                 !.outcome = [j \in 1..n |-> None]]
    /\ UNCHANGED exceptAgg

\* futures = {executor.submit(fetch_report_with_delay, camp): camp for camp in batch}
SubmitBatch ==
    /\ agg.pc = "submit"
    /\ agg' = [agg EXCEPT !.pc = "collect",
                          !.status = [j \in 1..Len(agg.campaigns) |->
                                         IF j \in BatchOf(agg) THEN "queued"
                                         ELSE agg.status[j]]]
    /\ UNCHANGED exceptAgg

\* a worker of the pool takes the oldest queued task and starts its fetch
StartFetch(j) ==
    /\ j \in 1..Len(agg.campaigns)
    /\ agg.status[j] = "queued"
    /\ \A k \in 1..(j - 1) : agg.status[k] # "queued"
    /\ PoolHasRoom(agg)
    /\ agg' = [agg EXCEPT !.status[j] = "running"]
    /\ UNCHANGED exceptAgg

\* the fetch of task j ends: its future is done
CompleteFetch(j, outcome) ==
    /\ j \in 1..Len(agg.campaigns)
    /\ agg.status[j] = "running"
    /\ agg' = [agg EXCEPT !.status[j] = "done", !.outcome[j] = outcome]
    /\ UNCHANGED exceptAgg

\* for future in as_completed(futures): results.append(future.result())
Collect(j) ==
    /\ agg.pc = "collect"
    /\ j \in 1..Len(agg.campaigns)
    /\ agg.status[j] = "done"
    /\ agg' = [agg EXCEPT
          !.status[j] = "collected",
          !.results = Append(@, fetch_report_with_delay(agg.campaigns[j], agg.outcome[j]))]
    /\ UNCHANGED exceptAgg

\* the with block ends (every future of the batch is done and collected):
\* the next batch, or "return results"
EndBatch ==
    /\ agg.pc = "collect"
    /\ \A j \in BatchOf(agg) : agg.status[j] = "collected"
    /\ agg' = [agg EXCEPT !.i = @ + BatchSize,
                          !.pc = IF agg.i + BatchSize < Len(agg.campaigns)
                                 THEN "submit" ELSE "returned"]
    /\ UNCHANGED exceptAgg

AggNext ==
    \/ \E n \in 0..MaxCampaigns : Aggregate(n)
    \/ SubmitBatch
    \/ \E j \in 1..MaxCampaigns : StartFetch(j)
    \/ \E j \in 1..MaxCampaigns, outcome \in Outcomes : CompleteFetch(j, outcome)
    \/ \E j \in 1..MaxCampaigns : Collect(j)
    \/ EndBatch

AggSpec == Init /\ [][AggNext]_vars

--------------------------------------------------------------------------
(* The campaign listing: MailchimpClient.get_campaigns(days, status, count) *)

\* the page the upstream returns for offset and count out of the total_items
\* campaigns it holds: the campaigns from offset on, at most count of them
UpstreamPage(total_items, offset, count) ==
    LET last == Min(offset + count, total_items)
    IN  [j \in 1..(IF last > offset THEN last - offset ELSE 0) |->
            Summaries(total_items)[offset + j]]

\* a test that looks at the upstream total only
Enough_TotalOnly(all_campaigns, total_items, count) ==
    Len(all_campaigns) >= total_items

\* "if len(all_campaigns) >= total_items or len(all_campaigns) >= count: break"
Enough(all_campaigns, total_items, count) ==
    Len(all_campaigns) >= total_items \/ Len(all_campaigns) >= count

\* the call get_campaigns(count=count) on an account of total_items campaigns
GetCampaigns(count, total_items) ==
    /\ listing.pc = "idle"
    /\ listing' = [NoListing EXCEPT !.pc = "request", !.count = count,
                                    !.total_items = total_items]
    /\ UNCHANGED exceptListing

\* the parameters of the next page request, with the number of campaigns
\* gathered when it is issued
PageParams(l) ==
    [count |-> Min(PageSize, l.count - Len(l.all_campaigns)),
     offset |-> l.offset, gathered |-> Len(l.all_campaigns)]

\* one turn of the loop whose page request is answered with campaigns_batch
PageTurn(campaigns_batch) ==
    LET params == PageParams(listing)
        all_campaigns == listing.all_campaigns \o campaigns_batch
        asked == [listing EXCEPT !.requests = Append(@, params)]
    IN  /\ listing.pc = "request"
        /\ listing' =
              IF Len(campaigns_batch) = 0
              THEN [asked EXCEPT !.pc = "returned", !.result = listing.all_campaigns]
              ELSE IF Enough(all_campaigns, listing.total_items, listing.count)
              THEN [asked EXCEPT !.pc = "returned", !.all_campaigns = all_campaigns,
                                 !.result = all_campaigns]
              ELSE [asked EXCEPT !.all_campaigns = all_campaigns,
                                 !.offset = @ + PageSize]
        /\ UNCHANGED exceptListing

\* the page request is answered with the campaigns it asked for
PageAnswered ==
    LET params == PageParams(listing)
    IN  PageTurn(UpstreamPage(listing.total_items, params.offset, params.count))

\* the page request is answered with fewer campaigns than it asked for and
\* the upstream holds: the first n of them
PageShort ==
    LET params == PageParams(listing)
        full == UpstreamPage(listing.total_items, params.offset, params.count)
    IN  \E n \in 1..(Len(full) - 1) : PageTurn(SubSeq(full, 1, n))

\* one turn of the loop whose page request fails: _get logs the error and
\* returns None, "if not data ...: break", "return all_campaigns"
PageFailed ==
    /\ listing.pc = "request"
    /\ listing' = [listing EXCEPT !.requests = Append(@, PageParams(listing)),
                                  !.pc = "returned", !.failed = TRUE,
                                  !.result = listing.all_campaigns]
    /\ UNCHANGED exceptListing

ListNext ==
    \/ \E count \in 0..MaxCount, total_items \in 0..MaxTotal :
          GetCampaigns(count, total_items)
    \/ PageAnswered
    \/ PageShort
    \/ PageFailed

ListSpec == Init /\ [][ListNext]_vars

\* the loop of get_campaigns runs on: no turn waits for anything but the
\* answer or the failure of its request, which the 30 s timeout bounds
ListFairSpec == ListSpec /\ WF_vars(PageAnswered \/ PageFailed)

--------------------------------------------------------------------------
(* The segment names: the memoization in the loop of get_campaigns, by the
   threads that share one client.  Each statement that reads or writes the
   client is a step of its own. *)

\* the keys of the campaigns of one listing that need their segment name:
\* one or two different keys
SegmentWork ==
    { <<a>> : a \in SegmentKeys } \cup
    { w \in SegmentKeys \X SegmentKeys : w[1] # w[2] }

\* the key thread t is at
KeyAt(t) == segs.thread[t].todo[segs.thread[t].k]

\* thread t enters get_campaigns; the campaigns of its pages need these names
BeginListing(t, todo) ==
    /\ segs.thread[t].pc = "idle"
    /\ segs.begun < MaxListings
    /\ segs' = [segs EXCEPT !.thread[t] = [NoThread EXCEPT !.pc = "hasattr",
                                                          !.todo = todo, !.k = 1],
                            !.begun = @ + 1]
    /\ UNCHANGED exceptSegs

\* "if not hasattr(self, '_segment_cache')"
HasAttr(t) ==
    /\ segs.thread[t].pc = "hasattr"
    /\ segs' = [segs EXCEPT !.thread[t].pc = IF segs.has_cache THEN "check" ELSE "init"]
    /\ UNCHANGED exceptSegs

\* "self._segment_cache = {}"
InitCache(t) ==
    /\ segs.thread[t].pc = "init"
    /\ segs' = [segs EXCEPT !.has_cache = TRUE, !.cache = [key \in {} |-> None],
                            !.thread[t].pc = "check"]
    /\ UNCHANGED exceptSegs

\* "cache_key not in self._segment_cache"
Missing(cache, key) == key \notin DOMAIN cache

\* "if cache_key not in self._segment_cache"
CheckCache(t) ==
    /\ segs.thread[t].pc = "check"
    /\ segs' = [segs EXCEPT !.thread[t].pc =
                   IF Missing(segs.cache, KeyAt(t)) THEN "lookup" ELSE "read"]
    /\ UNCHANGED exceptSegs

\* get_segment_name(list_id, segment_id): None without a call when an id is
\* missing; else one call of the segment endpoint, which gives the name, or
\* None when the call fails
Lookup(t, answered) ==
    LET key == KeyAt(t)
    IN  /\ segs.thread[t].pc = "lookup"
        /\ segs' =
              IF key[1] = "" \/ key[2] = ""
              THEN [segs EXCEPT !.thread[t].pc = "store",
                                !.thread[t].segment_name = None]
              ELSE [segs EXCEPT !.thread[t].pc = "store",
                                !.thread[t].segment_name =
                                    IF answered THEN "name" ELSE None,
                                !.calls[key] = @ + 1]
        /\ UNCHANGED exceptSegs

\* "self._segment_cache[cache_key] = segment_name or f'Segment #{segment_id}'"
StoreName(t) ==
    LET key == KeyAt(t)
        name == IF segs.thread[t].segment_name # None
                THEN segs.thread[t].segment_name ELSE "Segment #"
    IN  /\ segs.thread[t].pc = "store"
        /\ segs' = [segs EXCEPT !.cache = (key :> name) @@ segs.cache,
                                !.thread[t].pc = "read"]
        /\ UNCHANGED exceptSegs

\* "segment_text = self._segment_cache[cache_key]" (a KeyError when another
\* thread has replaced the dict meanwhile), then the next campaign, or the
\* end of the listing
ReadName(t) ==
    LET th == segs.thread[t]
    IN  /\ th.pc = "read"
        /\ segs' = [segs EXCEPT !.thread[t] =
              IF KeyAt(t) \notin DOMAIN segs.cache
              THEN [th EXCEPT !.pc = "raised"]
              ELSE IF th.k = Len(th.todo)
              THEN NoThread
              ELSE [th EXCEPT !.pc = "hasattr", !.k = @ + 1, !.segment_name = None]]
        /\ UNCHANGED exceptSegs

SegNext ==
    \/ \E t \in Threads, todo \in SegmentWork : BeginListing(t, todo)
    \/ \E t \in Threads : HasAttr(t)
    \/ \E t \in Threads : InitCache(t)
    \/ \E t \in Threads : CheckCache(t)
    \/ \E t \in Threads, answered \in BOOLEAN : Lookup(t, answered)
    \/ \E t \in Threads : StoreName(t)
    \/ \E t \in Threads : ReadName(t)

SegSpec == Init /\ [][SegNext]_vars

--------------------------------------------------------------------------
(* The syncs of all regions: the background task of POST /api/sync and the
   loop of POST /api/cache/populate.  A fetch that fails gives [] (the client
   catches the errors of its requests); upsert_campaigns either returns or
   raises (sqlite3 error, json.dumps error) and then leaves the table as it
   was. *)

\* POST /api/sync: the task is queued and the response is sent
TriggerSync ==
    /\ sync.pc = "idle"
    /\ sync.begun < MaxSyncs
    /\ sync' = [NoSync EXCEPT !.kind = "sync", !.pc = "fetch",
                              !.resp = [status |-> "Sync started for all regions"],
                              !.begun = sync.begun + 1]
    /\ UNCHANGED <<store, exceptSync>>

\* sync(): "all_data = mailchimp_service.get_dashboard_data(days=days)"
SyncFetch ==
    /\ sync.kind = "sync" /\ sync.pc = "fetch"
    /\ \E got \in service_get_dashboard_data(None) :
          sync' = [sync EXCEPT !.pc = "upsert", !.all_data = got.data, !.idx = 1,
                               !.fetched = DOMAIN got.data]
    /\ UNCHANGED <<store, exceptSync>>

\* sync(): one turn of "for region, campaigns in all_data.items():
\* database.upsert_campaigns(campaigns, region=region)"; when the upsert
\* raises, the exception leaves the loop and the task
SyncUpsert(raises) ==
    LET region == REGIONS[sync.idx]
    IN  /\ sync.kind = "sync" /\ sync.pc = "upsert"
        /\ sync.idx <= Len(REGIONS)
        /\ IF raises
           THEN /\ sync' = [sync EXCEPT !.pc = "raised", !.failed = @ \cup {region}]
                /\ UNCHANGED store
           ELSE /\ store' = upsert_campaigns(store, sync.all_data[region], region)
                /\ sync' = [sync EXCEPT !.idx = @ + 1, !.stored = @ \cup {region},
                                        !.pc = IF sync.idx = Len(REGIONS)
                                               THEN "done" ELSE "upsert"]
        /\ UNCHANGED exceptSync

\* POST /api/cache/populate: the handler starts its loop over REGIONS
PopulateCache ==
    /\ sync.pc = "idle"
    /\ sync.begun < MaxSyncs
    /\ sync' = [NoSync EXCEPT !.kind = "populate", !.pc = "region", !.idx = 1,
                              !.begun = sync.begun + 1]
    /\ UNCHANGED <<store, exceptSync>>

\* populate_cache: one turn of the loop: the fetch of the region, the upsert
\* when there is data, "except Exception" around both
PopulateRegion(raises) ==
    LET region == REGIONS[sync.idx]
        last == sync.idx = Len(REGIONS)
    IN  /\ sync.kind = "populate" /\ sync.pc = "region"
        /\ \E data \in client_get_dashboard_data :
              /\ raises => data # << >>
              /\ store' = IF raises \/ data = << >> THEN store
                          ELSE upsert_campaigns(store, data, region)
              /\ sync' = [sync EXCEPT
                    !.all_data = (region :> data) @@ sync.all_data,
                    !.fetched = @ \cup {region},
                    !.stored = IF raises THEN @ ELSE @ \cup {region},
                    !.failed = IF raises THEN @ \cup {region} ELSE @,
                    !.idx = @ + 1,
                    !.pc = IF last THEN "done" ELSE "region",
                    !.resp = IF last THEN [status |-> "completed"] ELSE @]
        /\ UNCHANGED exceptSync

\* the sync is over; another may begin
SyncOver ==
    /\ sync.pc \in {"done", "raised"}
    /\ sync' = [NoSync EXCEPT !.begun = sync.begun]
    /\ UNCHANGED <<store, exceptSync>>

SyncNext ==
    \/ TriggerSync
    \/ SyncFetch
    \/ \E raises \in BOOLEAN : SyncUpsert(raises)
    \/ PopulateCache
    \/ \E raises \in BOOLEAN : PopulateRegion(raises)
    \/ SyncOver

SyncSpec == Init /\ [][SyncNext]_vars

--------------------------------------------------------------------------
(* upsert_campaigns statement by statement: conn = sqlite3.connect(DB_PATH),
   one c.execute per campaign, conn.commit() after the loop.  The first
   INSERT opens a transaction on the connection; an exception in the loop or
   the end of the process loses the connection with the transaction open. *)

\* a connection that commits each statement as it is executed
AfterExecute_Autocommit(tbl, conn) ==
    conn

\* the table after a c.execute of the loop: the change is pending in the
\* transaction of the connection, the table is as it was
AfterExecute(tbl, conn) ==
    tbl

\* upsert_campaigns(campaigns_data, region) is called
BeginUpsert(campaigns_data, region) ==
    /\ txn.pc = "idle"
    /\ txn.begun < MaxUpserts
    /\ txn' = [NoTxn EXCEPT !.pc = "loop", !.campaigns_data = campaigns_data,
                            !.region = region, !.i = 1, !.conn = store,
                            !.before = store, !.begun = txn.begun + 1]
    /\ UNCHANGED <<store, exceptTxn>>

\* one turn of the loop
ExecuteOne ==
    LET conn == UpsertOne(txn.conn, txn.campaigns_data[txn.i], txn.region)
    IN  /\ txn.pc = "loop"
        /\ txn.i <= Len(txn.campaigns_data)
        /\ txn' = [txn EXCEPT !.conn = conn, !.i = @ + 1]
        /\ store' = AfterExecute(store, conn)
        /\ UNCHANGED exceptTxn

\* conn.commit(), conn.close(), return
Commit ==
    /\ txn.pc = "loop"
    /\ txn.i > Len(txn.campaigns_data)
    /\ store' = txn.conn
    /\ txn' = [txn EXCEPT !.pc = "returned"]
    /\ UNCHANGED exceptTxn

\* an exception or the end of the process before the commit, after txn.i - 1
\* campaigns: the connection is lost, and what it had pending with it
Interrupt ==
    /\ txn.pc = "loop"
    /\ txn' = [txn EXCEPT !.pc = "interrupted", !.k = txn.i - 1, !.conn = store]
    /\ UNCHANGED <<store, exceptTxn>>

\* the same upsert is called again after the interruption
Rerun ==
    /\ txn.pc = "interrupted"
    /\ txn.begun < MaxUpserts
    /\ txn' = [txn EXCEPT !.pc = "loop", !.i = 1, !.conn = store, !.rerun = TRUE,
                          !.begun = @ + 1]
    /\ UNCHANGED <<store, exceptTxn>>

\* the call is over; another may follow
UpsertOver ==
    /\ txn.pc \in {"returned", "interrupted"}
    /\ txn' = [NoTxn EXCEPT !.begun = txn.begun]
    /\ UNCHANGED <<store, exceptTxn>>

UpsertNext ==
    \/ \E campaigns_data \in client_get_dashboard_data, region \in clients :
          BeginUpsert(campaigns_data, region)
    \/ ExecuteOne
    \/ Commit
    \/ Interrupt
    \/ Rerun
    \/ UpsertOver

UpsertSpec == Init /\ [][UpsertNext]_vars

--------------------------------------------------------------------------
(* The dashboard endpoint with hard errors: any statement of the try block of
   the force_refresh branch may raise; "except Exception" turns the exception
   into HTTPException(status_code=500, detail=str(e)) *)

\* a handler that answers an error with the data it holds
Failure_WithData(r) ==
    [source |-> "mailchimp", region |-> r.region, data |-> r.data]

\* raise HTTPException(status_code=500, detail=str(e))
Failure(r) == [status_code |-> 500, detail |-> "error"]

\* the numbers of client fetches the service may have begun when its call
\* raises: that of the one region, or those of the first regions of REGIONS
FetchesBegun(region) ==
    IF region # None
    THEN IF get_client(region) # None THEN {1} ELSE {0}
    ELSE 1..Len(REGIONS)

\* force_refresh=True: the call of the service raises
FetchRaises(w, region) ==
    /\ CanBegin(w)
    /\ \E n \in FetchesBegun(region) :
       LET r == [Idle EXCEPT !.op = "dashboard", !.seq = started + 1,
                             !.region = region, !.force_refresh = TRUE,
                             !.fetches = n, !.error = TRUE, !.pc = "done"]
       IN  req' = [req EXCEPT ![w] = [r EXCEPT !.resp = Failure(r)]]
    /\ started' = started + 1
    /\ UNCHANGED <<store, fresh>>
    /\ UNCHANGED clientVars

\* database.upsert_campaigns raises for the next region to write (directly
\* or in the recursive call of the cache branch): the table keeps what the
\* upserts before it have written, the locals of the handler are gone
UpsertRaises(w) ==
    LET r == req[w]
    IN  /\ r.pc = "upsert"
        /\ req' = [req EXCEPT ![w] =
              [Idle EXCEPT !.op = r.op, !.seq = r.seq, !.region = r.region,
                           !.force_refresh = r.force_refresh,
                           !.recursed = r.recursed, !.fetches = r.fetches,
                           !.upserts = r.upserts, !.error = TRUE, !.pc = "done",
                           !.resp = Failure(r)]]
        /\ UNCHANGED <<store, started, fresh>>
        /\ UNCHANGED clientVars

HardNext ==
    \/ \E w \in Workers, region \in RegionParams : ForceRefresh(w, region)
    \/ \E w \in Workers, region \in RegionParams : FetchRaises(w, region)
    \/ \E w \in Workers : Upsert(w)
    \/ \E w \in Workers : UpsertRaises(w)
    \/ \E w \in Workers : Respond(w)
    \/ \E w \in Workers, days \in DaysParams, region \in RegionParams :
          CacheRead(w, days, region)
    \/ \E w \in Workers, days \in DaysParams : CacheReadAll(w, days)
    \/ \E w \in Workers : CacheReadNext(w)
    \/ \E w \in Workers : Finish(w)

HardSpec == Init /\ [][HardNext]_vars

--------------------------------------------------------------------------
(* The user management of the admins: POST /api/users, PUT
   /api/users/{user_id}/role, DELETE /api/users/{user_id}, POST
   /api/users/{user_id}/reset-password.  The endpoints run on the threads of
   the server; require_admin reads the acting user before the endpoint runs,
   and every statement a function of database.py executes on the users table
   is a step of its own (a SELECT opens no transaction). *)

\* the ids a token or a path may name: those of the users ever created
UserIds == 1..MaxUsers

\* the emails and the roles a request may carry
Emails == {"admin@x", "b@x"}
RoleParams == {"admin", "viewer", "owner"}

\* "if role not in ['admin', 'viewer']"
ValidRole(role) == role \in {"admin", "viewer"}

\* require_auth and require_admin for the token of user sub: the acting user
\* (get_user_by_id found the row and its role is admin), or the HTTPException
\* raised
require_admin(rows, sub) ==
    IF sub \notin DOMAIN rows THEN [status_code |-> 401]
    ELSE IF rows[sub].role # "admin" THEN [status_code |-> 403]
    ELSE [id |-> sub]

\* the answer of a function of database.py
Error(name) == [error |-> name]
Success == [status |-> "success"]

\* another request may begin on thread t
CanManage(t) == users.thread[t].pc = "idle" /\ users.begun < MaxAdminOps

\* the request of thread t begins: r is its state after the dependency and
\* the tests the function makes before it opens its connection
BeginRequest(t, sub, r, first) ==
    LET admin == require_admin(users.rows, sub)
    IN  users' = [users EXCEPT
            !.begun = @ + 1,
            !.thread[t] =
                IF "status_code" \in DOMAIN admin
                THEN [r EXCEPT !.pc = "done", !.result = admin]
                ELSE [first EXCEPT !.admin_id = admin.id]]

\* the request of thread t ends with this answer
Answer(t, result) ==
    users' = [users EXCEPT !.thread[t].pc = "done", !.thread[t].result = result]

\* the number of users created or about to be
Creating == Cardinality({t \in Threads : users.thread[t].pc \in {"create_select", "create_insert"}})

\* POST /api/users: create_user(email, role)
CreateUser(t, sub, email, role) ==
    LET r == [NoRequest EXCEPT !.op = "create_user", !.email = email, !.role = role]
    IN  /\ CanManage(t)
        /\ users.created + Creating < MaxUsers
        /\ BeginRequest(t, sub, r, [r EXCEPT !.pc = "create_select"])
        /\ UNCHANGED exceptUsers

\* "SELECT 1 FROM users WHERE email = ?", and the test of the role
CreateSelect(t) ==
    LET r == users.thread[t]
    IN  /\ r.pc = "create_select"
        /\ IF \E id \in DOMAIN users.rows : users.rows[id].email = r.email
           THEN Answer(t, Error("email_exists"))
           ELSE IF ~ValidRole(r.role)
           THEN Answer(t, Error("invalid_role"))
           ELSE users' = [users EXCEPT !.thread[t].pc = "create_insert"]
        /\ UNCHANGED exceptUsers

\* "INSERT INTO users ..." and the commit; email is UNIQUE: the insert of an
\* email that another request has inserted meanwhile raises
CreateInsert(t) ==
    LET r == users.thread[t]
        user_id == users.created + 1
    IN  /\ r.pc = "create_insert"
        /\ IF \E id \in DOMAIN users.rows : users.rows[id].email = r.email
           THEN Answer(t, [status_code |-> 500])
           ELSE users' = [users EXCEPT
                   !.rows = (user_id :> [email |-> r.email, role |-> r.role]) @@ @,
                   !.created = user_id,
                   !.thread[t].pc = "done",
                   !.thread[t].user_id = user_id,
                   !.thread[t].result = Success]
        /\ UNCHANGED exceptUsers

\* PUT /api/users/{user_id}/role: update_user_role(user_id, new_role, admin_id)
UpdateUserRole(t, sub, user_id, new_role) ==
    LET r == [NoRequest EXCEPT !.op = "update_user_role", !.user_id = user_id,
                               !.role = new_role]
        first == IF ~ValidRole(new_role)
                 THEN [r EXCEPT !.pc = "done", !.result = Error("invalid_role")]
                 ELSE IF user_id = sub
                 THEN [r EXCEPT !.pc = "done", !.result = Error("self_modification")]
                 ELSE [r EXCEPT !.pc = "role_select"]
    IN  /\ CanManage(t)
        /\ BeginRequest(t, sub, r, first)
        /\ UNCHANGED exceptUsers

\* "SELECT email FROM users WHERE id = ?"
RoleSelect(t) ==
    LET r == users.thread[t]
    IN  /\ r.pc = "role_select"
        /\ IF r.user_id \notin DOMAIN users.rows
           THEN Answer(t, Error("not_found"))
           ELSE users' = [users EXCEPT !.thread[t].pc = "role_update"]
        /\ UNCHANGED exceptUsers

\* "UPDATE users SET role = ? WHERE id = ?"
SetRole(rows, user_id, role) ==
    [id \in DOMAIN rows |->
        IF id = user_id THEN [rows[id] EXCEPT !.role = role] ELSE rows[id]]

\* the UPDATE of update_user_role and the commit
RoleUpdate(t) ==
    LET r == users.thread[t]
    IN  /\ r.pc = "role_update"
        /\ users' = [users EXCEPT !.rows = SetRole(@, r.user_id, r.role),
                                  !.thread[t].pc = "done",
                                  !.thread[t].result = Success]
        /\ UNCHANGED exceptUsers

\* DELETE /api/users/{user_id}: delete_user(user_id, admin_id)
DeleteUser(t, sub, user_id) ==
    LET r == [NoRequest EXCEPT !.op = "delete_user", !.user_id = user_id]
        first == IF user_id = sub
                 THEN [r EXCEPT !.pc = "done", !.result = Error("self_deletion")]
                 ELSE [r EXCEPT !.pc = "delete_select"]
    IN  /\ CanManage(t)
        /\ BeginRequest(t, sub, r, first)
        /\ UNCHANGED exceptUsers

\* "SELECT role FROM users WHERE id = ?"
DeleteSelect(t) ==
    LET r == users.thread[t]
    IN  /\ r.pc = "delete_select"
        /\ IF r.user_id \notin DOMAIN users.rows
           THEN Answer(t, Error("not_found"))
           ELSE users' = [users EXCEPT !.thread[t].pc =
                   IF users.rows[r.user_id].role = "admin"
                   THEN "delete_count" ELSE "delete_delete"]
        /\ UNCHANGED exceptUsers

\* "SELECT COUNT(*) FROM users WHERE role = 'admin' AND id != ?"
admin_count(rows, user_id) ==
    Cardinality({id \in DOMAIN rows : rows[id].role = "admin" /\ id # user_id})

\* the count of the remaining admins and "if admin_count == 0"
DeleteCount(t) ==
    LET r == users.thread[t]
    IN  /\ r.pc = "delete_count"
        /\ IF admin_count(users.rows, r.user_id) = 0
           THEN Answer(t, Error("last_admin"))
           ELSE users' = [users EXCEPT !.thread[t].pc = "delete_delete"]
        /\ UNCHANGED exceptUsers

\* "DELETE FROM users WHERE id = ?" and the commit
DeleteDelete(t) ==
    LET r == users.thread[t]
    IN  /\ r.pc = "delete_delete"
        /\ users' = [users EXCEPT
              !.rows = [id \in DOMAIN @ \ {r.user_id} |-> @[id]],
              !.thread[t].pc = "done",
              !.thread[t].result = Success]
        /\ UNCHANGED exceptUsers

\* POST /api/users/{user_id}/reset-password: reset_user_password(user_id,
\* admin_id)
ResetUserPassword(t, sub, user_id) ==
    LET r == [NoRequest EXCEPT !.op = "reset_user_password", !.user_id = user_id]
        first == IF user_id = sub
                 THEN [r EXCEPT !.pc = "done", !.result = Error("self_reset")]
                 ELSE [r EXCEPT !.pc = "reset_select"]
    IN  /\ CanManage(t)
        /\ BeginRequest(t, sub, r, first)
        /\ UNCHANGED exceptUsers

\* "SELECT email FROM users WHERE id = ?"
ResetSelect(t) ==
    LET r == users.thread[t]
    IN  /\ r.pc = "reset_select"
        /\ IF r.user_id \notin DOMAIN users.rows
           THEN Answer(t, Error("not_found"))
           ELSE users' = [users EXCEPT !.thread[t].pc = "reset_update"]
        /\ UNCHANGED exceptUsers

\* "UPDATE users SET password_hash = ?, must_change_password = 1 WHERE id = ?"
\* and the commit: no column that the roles depend on changes
ResetUpdate(t) ==
    /\ users.thread[t].pc = "reset_update"
    /\ Answer(t, Success)
    /\ UNCHANGED exceptUsers

\* the answer is sent and the thread is free again
RequestOver(t) ==
    /\ users.thread[t].pc = "done"
    /\ users' = [users EXCEPT !.thread[t] = NoRequest]
    /\ UNCHANGED exceptUsers

UserNext ==
    \/ \E t \in Threads, sub \in UserIds, email \in Emails, role \in RoleParams :
          CreateUser(t, sub, email, role)
    \/ \E t \in Threads : CreateSelect(t)
    \/ \E t \in Threads : CreateInsert(t)
    \/ \E t \in Threads, sub \in UserIds, user_id \in UserIds, new_role \in RoleParams :
          UpdateUserRole(t, sub, user_id, new_role)
    \/ \E t \in Threads : RoleSelect(t)
    \/ \E t \in Threads : RoleUpdate(t)
    \/ \E t \in Threads, sub \in UserIds, user_id \in UserIds : DeleteUser(t, sub, user_id)
    \/ \E t \in Threads : DeleteSelect(t)
    \/ \E t \in Threads : DeleteCount(t)
    \/ \E t \in Threads : DeleteDelete(t)
    \/ \E t \in Threads, sub \in UserIds, user_id \in UserIds :
          ResetUserPassword(t, sub, user_id)
    \/ \E t \in Threads : ResetSelect(t)
    \/ \E t \in Threads : ResetUpdate(t)
    \/ \E t \in Threads : RequestOver(t)

UserSpec == Init /\ [][UserNext]_vars

--------------------------------------------------------------------------
(* The dashboard endpoint from the request to its answer: the cache branch,
   its recursive call with force_refresh=True, and the hard errors of that
   call, which pass through the cache branch (it has no try block) as the
   HTTPException the inner call raised *)

\* force_refresh=False with a region: the cache read comes back empty and the
\* service raises in the recursive call
HealRaises(w, days, region) ==
    /\ CanBegin(w)
    /\ region # None
    /\ \E now \in Clock :
       \E data \in get_cached_campaigns(store, days, region, now) :
       \E n \in FetchesBegun(region) :
          /\ CacheEmpty(data)
          /\ LET r == [Idle EXCEPT !.op = "dashboard", !.seq = started + 1,
                                   !.region = region, !.recursed = TRUE,
                                   !.fetches = n, !.error = TRUE, !.pc = "done"]
             IN  req' = [req EXCEPT ![w] = [r EXCEPT !.resp = Failure(r)]]
    /\ started' = started + 1
    /\ UNCHANGED <<store, fresh>>
    /\ UNCHANGED clientVars

\* force_refresh=False without region: the cache read of the last region
\* leaves the cache sparse and the service raises in the recursive call
HealAllRaises(w) ==
    LET r == req[w]
        reg == REGIONS[r.idx]
    IN  /\ r.pc = "read"
        /\ r.idx = Len(REGIONS)
        /\ \E now \in Clock :
           \E data \in get_cached_campaigns(store, r.days, reg, now) :
           \E n \in FetchesBegun(None) :
              /\ CacheSparse((reg :> data) @@ r.data)
              /\ req' = [req EXCEPT ![w] =
                    [Idle EXCEPT !.op = r.op, !.seq = r.seq, !.recursed = TRUE,
                                 !.fetches = n, !.error = TRUE, !.pc = "done",
                                 !.resp = Failure(r)]]
        /\ UNCHANGED <<store, started, fresh>>
        /\ UNCHANGED clientVars

\* another dashboard request may be followed
CanFollow == started < MaxDashboards

\* the steps of a request that has begun
HealStep ==
    \/ \E w \in Workers : Respond(w)
    \/ \E w \in Workers : UpsertRaises(w)
    \/ \E w \in Workers : Upsert(w)
    \/ \E w \in Workers : CacheReadNext(w)
    \/ \E w \in Workers : HealAllRaises(w)

HealNext ==
    \/ \E w \in Workers, region \in RegionParams : CanFollow /\ ForceRefresh(w, region)
    \/ \E w \in Workers, region \in RegionParams : CanFollow /\ FetchRaises(w, region)
    \/ \E w \in Workers, days \in DaysParams, region \in RegionParams :
          CanFollow /\ CacheRead(w, days, region)
    \/ \E w \in Workers, days \in DaysParams, region \in RegionParams :
          CanFollow /\ HealRaises(w, days, region)
    \/ \E w \in Workers, days \in DaysParams : CanFollow /\ CacheReadAll(w, days)
    \/ HealStep
    \/ \E w \in Workers : Finish(w)

HealSpec == Init /\ [][HealNext]_vars

--------------------------------------------------------------------------
(* The service and its clients: mailchimp_service =
   MultiRegionMailchimpService(), built once when the module is imported,
   from the environment of the process *)

\* the variables of the environment that the service reads
EnvNames ==
    {"MAILCHIMP_API_KEY", "MAILCHIMP_SERVER_PREFIX",
     "MAILCHIMP_API_KEY_US", "MAILCHIMP_SERVER_PREFIX_US",
     "MAILCHIMP_API_KEY_EU", "MAILCHIMP_SERVER_PREFIX_EU"}

\* f"MAILCHIMP_API_KEY_{region}" and f"MAILCHIMP_SERVER_PREFIX_{region}"
KeyVar(region) ==
    CASE region = "US" -> "MAILCHIMP_API_KEY_US"
      [] region = "EU" -> "MAILCHIMP_API_KEY_EU"
      [] OTHER -> <<"MAILCHIMP_API_KEY_", region>>

PrefixVar(region) ==
    CASE region = "US" -> "MAILCHIMP_SERVER_PREFIX_US"
      [] region = "EU" -> "MAILCHIMP_SERVER_PREFIX_EU"
      [] OTHER -> <<"MAILCHIMP_SERVER_PREFIX_", region>>

\* a variable is unset (None), set to the empty string, or set to a value,
\* written here as the name of the variable
Environments == { e \in [EnvNames -> {None, ""} \cup EnvNames] :
                    \A n \in EnvNames : e[n] \in {None, "", n} }

\* os.getenv(name)
getenv(env, name) == IF name \in DOMAIN env THEN env[name] ELSE None

\* the truth value of a str or None, and "a or b"
Truthy(v) == v # None /\ v # ""
Or(a, b) == IF Truthy(a) THEN a ELSE b

\* the regions named by the variables MAILCHIMP_API_KEY_*, in the order of
\* os.environ
RegionOrder == <<"US", "EU">>

\* MultiRegionMailchimpService._detect_available_regions()
detect_available_regions(env) ==
    LET available_regions ==
            SelectSeq(RegionOrder,
                      LAMBDA g : /\ getenv(env, KeyVar(g)) # None
                                 /\ Truthy(getenv(env, PrefixVar(g))))
    IN  IF available_regions # << >> THEN available_regions
        ELSE IF /\ Truthy(getenv(env, "MAILCHIMP_API_KEY"))
                /\ Truthy(getenv(env, "MAILCHIMP_SERVER_PREFIX"))
        THEN <<"DEFAULT">>
        ELSE << >>

\* MailchimpClient(region): the routing and auth state of the client
MailchimpClient(env, region) ==
    LET api_key == Or(getenv(env, KeyVar(region)), getenv(env, "MAILCHIMP_API_KEY"))
        server_prefix == Or(getenv(env, PrefixVar(region)),
                            getenv(env, "MAILCHIMP_SERVER_PREFIX"))
    IN  IF ~Truthy(api_key) \/ ~Truthy(server_prefix)
        THEN [region |-> region,
              base_url |-> <<"https://", "us1", ".api.mailchimp.com/3.0">>,
              admin_url |-> <<"https://", "us1", ".admin.mailchimp.com">>,
              headers |-> {}]
        ELSE [region |-> region,
              base_url |-> <<"https://", server_prefix, ".api.mailchimp.com/3.0">>,
              admin_url |-> <<"https://", server_prefix, ".admin.mailchimp.com">>,
              headers |-> {<<"Authorization", <<"Bearer", api_key>>>>,
                           <<"Content-Type", "application/json">>}]

\* REGION_NAMES.get(region_code, region_code)
get_region_name(region_code) ==
    CASE region_code = "US" -> "United States"
      [] region_code = "EU" -> "Europe"
      [] region_code = "DEFAULT" -> "Default"
      [] OTHER -> region_code

\* the process starts with environment e
Deploy(e) ==
    /\ svc.pc = "off"
    /\ svc' = [svc EXCEPT !.pc = "env", !.env = e]
    /\ UNCHANGED exceptSvc

\* MultiRegionMailchimpService.__init__
Construct ==
    LET detected == detect_available_regions(svc.env)
    IN  /\ svc.pc = "env"
        /\ svc' = [svc EXCEPT
              !.pc = "built", !.env0 = svc.env, !.REGIONS = detected,
              !.clients = [g \in {detected[i] : i \in 1..Len(detected)} |->
                              MailchimpClient(svc.env, g)]]
        /\ UNCHANGED exceptSvc

\* the environment changes while the process runs (load_dotenv() of main.py,
\* which runs after the import of the service, sets variables that are unset)
Putenv(name, value) ==
    /\ svc.pc = "built"
    /\ svc.changes < MaxEnvChanges
    /\ svc.env[name] # value
    /\ svc' = [svc EXCEPT !.env[name] = value, !.changes = @ + 1]
    /\ UNCHANGED exceptSvc

\* the regions a caller may name
RegionArgs == {"US", "EU", "JP"}

\* MultiRegionMailchimpService.get_client(region): self.clients.get(region)
GetClient(region) ==
    /\ svc.pc = "built"
    /\ svc' = [svc EXCEPT !.last =
          [op |-> "get_client", region |-> region, client |-> None, env |-> None,
           result |-> IF region \in DOMAIN svc.clients
                      THEN svc.clients[region] ELSE None]]
    /\ UNCHANGED exceptSvc

\* MultiRegionMailchimpService.get_regions_with_names()
GetRegionsWithNames ==
    /\ svc.pc = "built"
    /\ svc' = [svc EXCEPT !.last =
          [op |-> "get_regions_with_names", region |-> None, client |-> None,
           env |-> None,
           result |-> [i \in 1..Len(svc.REGIONS) |->
                          [code |-> svc.REGIONS[i],
                           name |-> get_region_name(svc.REGIONS[i])]]]]
    /\ UNCHANGED exceptSvc

\* MailchimpClient(region=region), for any region; the environment it was
\* built in is kept with it (history)
NewClient(region) ==
    /\ svc.pc = "built"
    /\ svc' = [svc EXCEPT !.last =
          [op |-> "MailchimpClient", region |-> region,
           client |-> MailchimpClient(svc.env, region), env |-> svc.env,
           result |-> None]]
    /\ UNCHANGED exceptSvc

\* the calls of a client that read the upstream
ClientOps == {"get_campaigns", "get_campaign_report", "get_lists", "get_growth_history"}

\* what a call returns when _get returned None
EmptyResult(op) == IF op = "get_campaign_report" THEN [k \in {} |-> None] ELSE << >>

\* what a call returns when _get returned the answer of the upstream
SomeResult(op) ==
    IF op = "get_campaign_report" THEN [campaign_id |-> "c1", opens |-> 7]
    ELSE <<[id |-> "c1"]>>

\* one call on the client just built: _get sends the request to base_url
\* with the headers of the client; the upstream answers 401 to a request
\* without Authorization, and raise_for_status() makes _get return None
ClientCall(op, answered) ==
    LET client == svc.last.client
    IN  /\ svc.pc = "built"
        /\ svc.last.op \in {"MailchimpClient"} \cup ClientOps
        /\ client.headers = {} => ~answered
        /\ svc' = [svc EXCEPT !.last =
              [op |-> op, region |-> client.region, client |-> client,
               env |-> svc.last.env,
               result |-> IF answered THEN SomeResult(op) ELSE EmptyResult(op)]]
        /\ UNCHANGED exceptSvc

SvcNext ==
    \/ \E e \in Environments : Deploy(e)
    \/ Construct
    \/ \E name \in EnvNames : \E value \in {None, "", name} : Putenv(name, value)
    \/ \E region \in RegionArgs : GetClient(region)
    \/ GetRegionsWithNames
    \/ \E region \in RegionArgs : NewClient(region)
    \/ \E op \in ClientOps, answered \in BOOLEAN : ClientCall(op, answered)

SvcSpec == Init /\ [][SvcNext]_vars

--------------------------------------------------------------------------
(* One upstream request: MailchimpClient._get through the session of
   create_session_with_retry, whose adapter carries Retry(total=3,
   backoff_factor=1, status_forcelist=[429, 500, 502, 503, 504],
   allowed_methods=["HEAD", "GET", "OPTIONS"]); connect, read, status and
   other are left unset, so total alone counts the retries *)

status_forcelist == {429, 500, 502, 503, 504}
allowed_methods == {"HEAD", "GET", "OPTIONS"}

\* the statuses retried when the response carries Retry-After
\* (respect_retry_after_header is left at its default)
RETRY_AFTER_STATUS_CODES == {413, 429, 503}

\* what one attempt of the request may come to: a response with a status,
\* with or without a Retry-After header, or an error before any response
Response(status, has_retry_after) ==
    [kind |-> "response", status |-> status, has_retry_after |-> has_retry_after]

AttemptError(kind) == [kind |-> kind, status |-> 0, has_retry_after |-> FALSE]

AttemptOutcomes ==
    { Response(s, FALSE) : s \in {200, 401, 404, 413} \cup status_forcelist }
    \cup { Response(413, TRUE), Response(503, TRUE) }
    \cup { AttemptError(k) : k \in {"connect_timeout", "read_timeout", "connection_error"} }

\* a retry policy that retries every error status
is_retry_AnyError(method, status_code, has_retry_after) ==
    status_code >= 400

\* Retry.is_retry(method, status_code, has_retry_after)
is_retry(method, status_code, has_retry_after) ==
    /\ method \in allowed_methods
    /\ \/ status_code \in status_forcelist
       \/ has_retry_after /\ status_code \in RETRY_AFTER_STATUS_CODES

\* the attempt is one the adapter retries while retries are left: a connect
\* timeout and any other connection error for every method, a read error
\* for the allowed methods, a response by is_retry
Retried(method, outcome) ==
    CASE outcome.kind = "response" ->
            is_retry(method, outcome.status, outcome.has_retry_after)
      [] outcome.kind = "read_timeout" -> method \in allowed_methods
      [] OTHER -> TRUE

\* the exception session.get or raise_for_status() raises for the last
\* attempt, or None: Timeout and its subclasses, or another RequestException
ExceptionOf(method, outcome, exhausted) ==
    CASE outcome.kind = "response" /\ exhausted /\ Retried(method, outcome) -> "RetryError"
      [] outcome.kind = "response" /\ outcome.status >= 400 -> "HTTPError"
      [] outcome.kind = "response" -> None
      [] outcome.kind = "connect_timeout" -> "ConnectTimeout"
      [] outcome.kind = "read_timeout" /\ ~Retried(method, outcome) -> "ReadTimeout"
      [] OTHER -> "ConnectionError"

\* the exceptions _get catches: "except requests.exceptions.Timeout" and
\* "except requests.exceptions.RequestException"
Caught == {"ConnectTimeout", "ReadTimeout", "RetryError", "HTTPError", "ConnectionError"}

\* _get(endpoint, params): self.session.get(...)
SessionGet ==
    /\ http.pc = "idle"
    /\ http.begun < MaxGets
    /\ http' = [NoHttp EXCEPT !.pc = "attempt", !.method = "GET",
                              !.total = RetryTotal, !.begun = http.begun + 1]
    /\ UNCHANGED exceptHttp

\* one attempt of the request: it is retried (Retry.increment, total - 1,
\* not exhausted), or session.get ends with a response or an exception; then
\* raise_for_status(), "return response.json()" or the except clauses
Attempt(outcome) ==
    LET history == Append(http.history, outcome)
        retry == Retried(http.method, outcome)
        exhausted == http.total - 1 < 0
        exc == ExceptionOf(http.method, outcome, exhausted)
    IN  /\ http.pc = "attempt"
        /\ http' =
              IF retry /\ ~exhausted
              THEN [http EXCEPT !.history = history, !.total = @ - 1]
              ELSE IF exc = None
              THEN [http EXCEPT !.history = history, !.pc = "returned",
                                !.result = "json"]
              ELSE IF exc \in Caught
              THEN [http EXCEPT !.history = history, !.pc = "returned",
                                !.raised = exc, !.result = None]
              ELSE [http EXCEPT !.history = history, !.pc = "raised",
                                !.raised = exc]
        /\ UNCHANGED exceptHttp

\* the call is over; another may follow
GetOver ==
    /\ http.pc \in {"returned", "raised"}
    /\ http' = [NoHttp EXCEPT !.begun = http.begun]
    /\ UNCHANGED exceptHttp

HttpNext ==
    \/ SessionGet
    \/ \E outcome \in AttemptOutcomes : Attempt(outcome)
    \/ GetOver

HttpSpec == Init /\ [][HttpNext]_vars

--------------------------------------------------------------------------
(* The shared links: POST /api/share, GET /api/share/{token}, POST
   /api/share/{token}/verify on the shared_links table.  A token is the
   number of the link's creation; a NULL expires_at is the empty text. *)

\* the times of the clock of the shared links, and their order
Times == [day : 0..LastDay, micro : {0, 1}]
Later(a, b) == a.day > b.day \/ (a.day = b.day /\ a.micro > b.micro)
NotEarlier(a, b) == a = b \/ Later(a, b)

\* datetime.fromisoformat(text) of a text that isoformat() printed
fromisoformat(text) == [day |-> text[1], micro |-> IF Len(text) > 1 THEN 1 ELSE 0]

\* the filter state, passwords and expirations (in days; 0 for null: the
\* link never expires) a request may carry
FilterStates == { [days |-> "7", region |-> "US"] }
PasswordParams == {None, "", "p"}
VerifyParams == {"p", "q"}
ExpiresParams == 0..1
TokenParams == 1..(MaxLinks + 1)

\* json.dumps(filter_state)
FilterKeyOrder == <<"days", "region">>
DumpsFilter(filter_state) ==
    LET present == SelectSeq(FilterKeyOrder, LAMBDA k : k \in DOMAIN filter_state)
    IN  [i \in 1..Len(present) |-> <<present[i], filter_state[present[i]]>>]

\* hash_password(password): the SHA-256 hex digest, different for different
\* passwords
hash_password(password) ==
    CASE password = "" -> "sha256()"
      [] password = "p" -> "sha256(p)"
      [] password = "q" -> "sha256(q)"

\* time passes
Tick(t) ==
    /\ t \in Times
    /\ Later(t, links.now)
    /\ links' = [links EXCEPT !.now = t]
    /\ UNCHANGED exceptLinks

\* POST /api/share: create_shared_link(filter_state, password, expires_days)
\* (secret, which no query reads, keeps the password as given)
CreateShareLink(filter_state, password, expires_days) ==
    LET token == Len(links.rows) + 1
        password_hash == IF Truthy(password) THEN hash_password(password) ELSE None
        expires_at == IF expires_days # 0
                      THEN isoformat([links.now EXCEPT !.day = @ + expires_days])
                      ELSE << >>
        row == [filter_state |-> DumpsFilter(filter_state),
                password_hash |-> password_hash, expires_at |-> expires_at,
                access_count |-> 0, secret |-> password]
    IN  /\ Len(links.rows) < MaxLinks
        /\ links' = [links EXCEPT !.rows = Append(@, row)]
        /\ UNCHANGED exceptLinks

\* "if row['expires_at']: ... if datetime.utcnow() > expires_at"
Expired(row, now) ==
    /\ Len(row.expires_at) > 0
    /\ Later(now, fromisoformat(row.expires_at))

\* a test of the password that lets every password through
PasswordRefused_Never(row, password) ==
    FALSE

\* "if row['password_hash']: if hash_password(password) != row['password_hash']"
PasswordRefused(row, password) ==
    /\ Truthy(row.password_hash)
    /\ hash_password(password) # row.password_hash

\* "UPDATE shared_links SET access_count = access_count + 1 WHERE token = ?"
Counted(rows, token) == [rows EXCEPT ![token].access_count = @ + 1]

\* verify_shared_link_password(token, password) at time now: the table it
\* leaves and what it returns
verify_shared_link_password(rows, token, password, now) ==
    IF token \notin DOMAIN rows
    THEN [rows |-> rows, result |-> [status |-> None]]
    ELSE IF Expired(rows[token], now)
    THEN [rows |-> rows, result |-> [error |-> "expired"]]
    ELSE IF PasswordRefused(rows[token], password)
    THEN [rows |-> rows, result |-> [error |-> "invalid_password"]]
    ELSE [rows |-> Counted(rows, token),
          result |-> [filter_state |-> JsonLoads(rows[token].filter_state)]]

\* access_shared_link(token) at time now
access_shared_link(rows, token, now) ==
    IF token \notin DOMAIN rows
    THEN [rows |-> rows, result |-> [status |-> None]]
    ELSE IF Expired(rows[token], now)
    THEN [rows |-> rows, result |-> [error |-> "expired"]]
    ELSE IF Truthy(rows[token].password_hash)
    THEN [rows |-> rows, result |-> [error |-> "password_required"]]
    ELSE [rows |-> Counted(rows, token),
          result |-> [filter_state |-> JsonLoads(rows[token].filter_state)]]

\* get_shared_link(token) at time now: the link info
get_shared_link(rows, token, now) ==
    IF token \notin DOMAIN rows THEN [status |-> None]
    ELSE IF Expired(rows[token], now) THEN [error |-> "expired"]
    ELSE [has_password |-> Truthy(rows[token].password_hash),
          access_count |-> rows[token].access_count]

\* the link may be opened once more
CanAccess(token) ==
    token \in DOMAIN links.rows => links.rows[token].access_count < MaxAccesses

\* GET /api/share/{token}: get_share_link(token); the link info is read now
\* and the link is accessed at time then
GetShareLink(token, then) ==
    LET link_info == get_shared_link(links.rows, token, links.now)
        got == access_shared_link(links.rows, token, then)
        answer ==
            IF "status" \in DOMAIN link_info THEN [status_code |-> 404]
            ELSE IF "error" \in DOMAIN link_info
            THEN [status |-> "error", error |-> "expired"]
            ELSE IF link_info.has_password THEN [status |-> "password_required"]
            ELSE IF "status" \in DOMAIN got.result THEN [status_code |-> 404]
            ELSE IF "error" \in DOMAIN got.result
            THEN [status |-> "error", error |-> got.result.error]
            ELSE [status |-> "success", filter_state |-> got.result.filter_state,
                  access_count |-> link_info.access_count + 1]
        accessed == /\ "has_password" \in DOMAIN link_info
                    /\ ~link_info.has_password
    IN  /\ CanAccess(token)
        /\ then \in Times
        /\ NotEarlier(then, links.now)
        /\ links' = [links EXCEPT
              !.rows = IF accessed THEN got.rows ELSE @,
              !.now = IF accessed THEN then ELSE @,
              !.last = [op |-> "get_share_link", token |-> token, password |-> None,
                        now |-> IF accessed THEN then ELSE links.now,
                        result |-> answer]]
        /\ UNCHANGED exceptLinks

\* POST /api/share/{token}/verify: verify_share_link_password(token, request)
VerifyShareLinkPassword(token, password) ==
    LET got == verify_shared_link_password(links.rows, token, password, links.now)
        answer ==
            IF "status" \in DOMAIN got.result THEN [status_code |-> 404]
            ELSE IF "error" \in DOMAIN got.result
            THEN [status |-> "error", error |-> got.result.error]
            ELSE [status |-> "success", filter_state |-> got.result.filter_state]
    IN  /\ CanAccess(token)
        /\ links' = [links EXCEPT
              !.rows = got.rows,
              !.last = [op |-> "verify_share_link_password", token |-> token,
                        password |-> password, now |-> links.now, result |-> answer]]
        /\ UNCHANGED exceptLinks

LinkNext ==
    \/ \E t \in Times : Tick(t)
    \/ \E filter_state \in FilterStates, password \in PasswordParams,
          expires_days \in ExpiresParams :
          CreateShareLink(filter_state, password, expires_days)
    \/ \E token \in TokenParams, then \in Times : GetShareLink(token, then)
    \/ \E token \in TokenParams, password \in VerifyParams :
          VerifyShareLinkPassword(token, password)

LinkSpec == Init /\ [][LinkNext]_vars

--------------------------------------------------------------------------
(* Vocabulary of the properties *)

\* the rows of tbl with the key (id, region), as a bag
RowsWithKey(tbl, id, region) == Where(tbl, LAMBDA o : o.id = id /\ o.region = region)

\* the row that one upsert of camp for region writes
RowOf(camp, region) ==
    Row(Get(camp, "id"), region, Get(camp, "title"), Get(camp, "send_time"),
        JsonDumps(Stamp(camp, region)))

\* the step is the call upsert_campaigns(campaigns_data, region)
Upserts(campaigns_data, region) ==
    \E w \in Workers : CallUpsertCampaigns(w, campaigns_data, region)

--------------------------------------------------------------------------
\* C1: after any sequence of upsert_campaigns and clear_cache calls, whatever
\* the ids of the records upserted (a record without id included), the store
\* never contains two rows with the same (id, region).
C1_KeyUnique ==
    \A r \in Rows(store) : RowCount(RowsWithKey(store, r.id, r.region)) = 1

\* C2: upserting again, for the same region, records whose rows are in the
\* store as the previous upsert of those records left them keeps the title,
\* the send time and the payload of the rows and does not increase the row
\* count.
C2_Idempotent ==
    [][\A campaigns_data \in client_get_dashboard_data, region \in clients :
          ( /\ Upserts(campaigns_data, region)
            /\ \A i \in 1..Len(campaigns_data) :
                  BagIn(RowOf(campaigns_data[i], region), store) )
          => /\ RowCount(store') = RowCount(store)
             /\ \A i \in 1..Len(campaigns_data) :
                  BagIn(RowOf(campaigns_data[i], region), store')]_vars

\* C3: after an upsert has written a record for a key (id, region), the
\* store holds for that key the row of that write and nothing of an earlier
\* write: one row, with the title, send time and payload just written.
C3_LastWriteWins ==
    [][\A campaigns_data \in client_get_dashboard_data, region \in clients :
          Upserts(campaigns_data, region) =>
            \A i \in 1..Len(campaigns_data) :
              RowsWithKey(store', IdOf(campaigns_data[i]), region)
                = SetToBag({RowOf(campaigns_data[i], region)})]_vars

--------------------------------------------------------------------------
(* Instants, for the properties that speak of time rather than of text *)

\* the instant an ISO text of the store denotes (a send_time has no
\* fraction of a second), and the chronological order of two instants
Instant(text) == [day |-> text[1], micro |-> 0]
NotBefore(a, b) == a.day > b.day \/ (a.day = b.day /\ a.micro >= b.micro)

\* the rows of tbl of the selected region (every region when region is None)
\* sent at or after now - days
Matching(tbl, days, region, now) ==
    Where(tbl, LAMBDA r : /\ region # None => r.region = region
                          /\ NotBefore(Instant(r.send_time), MinusDays(now, days)))

\* the records stored in the rows of a bag, as a bag
Payloads(sel) ==
    LET recs == {JsonLoads(r.data_json) : r \in Rows(sel)}
    IN  [p \in recs |->
           Sum([r \in {o \in Rows(sel) : JsonLoads(o.data_json) = p} |-> CopiesIn(r, sel)])]

\* the elements of a list, as a bag
BagOf(q) ==
    [p \in {q[i] : i \in 1..Len(q)} |-> Cardinality({i \in 1..Len(q) : q[i] = p})]

\* q is the list of the records of sel, newest first, cut after RowCap rows
NewestFirstCapped(q, sel) ==
    /\ Len(q) = Min(RowCap, RowCount(sel))
    /\ BagOf(q) \sqsubseteq Payloads(sel)
    /\ \A i, j \in 1..Len(q) :
          i < j => NotBefore(Instant(q[i].send_time), Instant(q[j].send_time))
    /\ \A p \in BagToSet(Payloads(sel) (-) BagOf(q)) :
          NotBefore(Instant(q[Len(q)].send_time), Instant(p.send_time))

\* C4: for every content of the store, window and region selector (one
\* region or all), get_cached_campaigns returns exactly the stored records of
\* the selected region(s) sent at or after now - days, newest first, cut
\* after the first RowCap rows of that order.
C4_CachedWindow ==
    \A w \in Workers :
        LET r == req[w]
        IN  r.op = "get_cached_campaigns" =>
                NewestFirstCapped(r.resp.data, Matching(store, r.days, r.region, r.now))

\* a read of one region has returned RowCap records while more rows of the
\* region than that are in the window, a row of the region is outside the
\* window and the store has rows of another region
C4_Witness ==
    \E w \in Workers :
        LET r == req[w]
            inRegion == Where(store, LAMBDA o : o.region = r.region)
            matching == Matching(store, r.days, r.region, r.now)
        IN  /\ r.op = "get_cached_campaigns"
            /\ r.region # None
            /\ Len(r.resp.data) = RowCap
            /\ RowCount(matching) > RowCap
            /\ RowCount(inRegion) > RowCount(matching)
            /\ RowCount(store) > RowCount(inRegion)

--------------------------------------------------------------------------
(* The requests of the dashboard endpoint *)

\* the list q is the list l with the region stamped on every record and
\* nothing else changed
SameRecords(q, l) ==
    /\ Len(q) = Len(l)
    /\ \A i \in 1..Len(l) : \A k \in DOMAIN l[i] : k \in DOMAIN q[i] /\ q[i][k] = l[i][k]

\* the response of r carries, for every region fetched, the records fetched
ReturnsFetched(r) ==
    /\ r.resp.source = "mailchimp"
    /\ DOMAIN r.resp.data = DOMAIN r.fetched
    /\ \A g \in DOMAIN r.fetched : SameRecords(r.resp.data[g], r.fetched[g])

\* a request for one region without force_refresh whose cache read has
\* returned no row
EmptyRead(r) ==
    /\ r.op = "dashboard" /\ ~r.force_refresh /\ r.region # None
    /\ r.pc # "idle" /\ r.cached = 0

\* C5: a request for one region without force_refresh whose cache read
\* returns zero rows performs exactly one live fetch for that region and
\* exactly one upsert, and returns the freshly fetched data.
C5_SelfHeal ==
    \A w \in Workers :
        LET r == req[w]
        IN  EmptyRead(r) =>
              /\ r.recursed
              /\ r.fetches = 1
              /\ r.upserts <= 1
              /\ r.pc \in {"respond", "done"} => r.upserts = 1
              /\ r.pc = "done" => ReturnsFetched(r)

--------------------------------------------------------------------------
(* The full refresh cycle *)

\* the store holds exactly one row (id, region) per record of the list q,
\* with the fields of that record, and no other row
OneRowEach(tbl, q, region) ==
    /\ RowCount(tbl) = Len(q)
    /\ \A i \in 1..Len(q) :
          /\ RowCount(RowsWithKey(tbl, IdOf(q[i]), region)) = 1
          /\ \E row \in Rows(tbl) :
                /\ row.id = IdOf(q[i]) /\ row.region = region
                /\ row.title = Get(q[i], "title")
                /\ row.send_time = Get(q[i], "send_time")
                /\ JsonLoads(row.data_json) = q[i]

\* every record of the list q was sent at or after now - days
AllInWindow(q, days, now) ==
    \A i \in 1..Len(q) : NotBefore(Instant(q[i].send_time), MinusDays(now, days))

\* a request for the region of the remembered refresh, without force_refresh,
\* begun after that refresh, in whose window all the refreshed records are
FollowingRead(r) ==
    /\ fresh.region # None
    /\ r.op = "dashboard" /\ ~r.force_refresh /\ r.pc # "idle"
    /\ r.seq > fresh.seq
    /\ r.region = fresh.region
    /\ AllInWindow(fresh.data, r.days, r.now)

\* such a request makes no live fetch and returns the refreshed records
ServedFromStore(r) ==
    /\ r.fetches = 0
    /\ r.pc = "done"
    /\ r.resp.source = "database"
    /\ BagOf(r.resp.data[r.region]) = BagOf(fresh.data)

\* C6: after a forced refresh for region R whose upstream fetch returns a
\* non-empty set S of campaigns on an empty store, the store holds exactly
\* one row (id, R) per campaign of S; a following request for R without
\* force_refresh in whose window all of S lies makes no live fetch and
\* returns those records with the field values the refresh returned.
C6_RefreshCycle ==
    /\ fresh.region # None => OneRowEach(store, fresh.data, fresh.region)
    /\ \A w \in Workers :
          (FollowingRead(req[w]) /\ Len(fresh.data) > 0) => ServedFromStore(req[w])

\* C6 as stated, for any set S (the empty one included)
C6_RefreshCycle_AnySet ==
    /\ fresh.region # None => OneRowEach(store, fresh.data, fresh.region)
    /\ \A w \in Workers : FollowingRead(req[w]) => ServedFromStore(req[w])

\* a refresh has stored two campaigns and a following read has returned them
C6_Witness ==
    \E w \in Workers :
        /\ FollowingRead(req[w])
        /\ Len(fresh.data) = 2
        /\ req[w].pc = "done"
        /\ Len(req[w].resp.data[req[w].region]) = 2

--------------------------------------------------------------------------
(* Clearing the cache *)

\* worker w takes the step that serves POST /api/cache/clear
ClearStep(w) == req[w].pc = "idle" /\ req'[w].op = "clear"

\* C7: clear_cache(R) deletes exactly the rows whose region is R, returns the
\* number of rows it deleted and leaves every row of every other region as
\* it was; clear_cache() without region deletes all rows and returns their
\* count.
C7_ClearCache ==
    [][\A w \in Workers :
          ClearStep(w) =>
            LET R == req'[w].region
            IN  /\ R # None =>
                     \A row \in Rows(store) :
                        CopiesIn(row, store') =
                           IF row.region = R THEN 0 ELSE CopiesIn(row, store)
                /\ R = None => store' = EmptyBag
                /\ Rows(store') \subseteq Rows(store)
                /\ req'[w].resp.deleted_count = RowCount(store) - RowCount(store')]_vars

\* a clear of one region has deleted rows and has left rows of another region
C7_Witness ==
    \E w \in Workers :
        /\ req[w].op = "clear" /\ req[w].pc = "done"
        /\ req[w].region # None
        /\ req[w].resp.deleted_count > 1
        /\ RowCount(store) > 1

--------------------------------------------------------------------------
(* The cache branch of the dashboard endpoint *)

\* a request for all regions without force_refresh, past its cache reads
AllRegionsRead(r) ==
    /\ r.op = "dashboard" /\ ~r.force_refresh /\ r.region = None
    /\ r.pc \notin {"idle", "read"}

\* C8: a request for all regions without force_refresh turns into a forced
\* refresh of all regions if and only if the rows its cache reads returned,
\* summed over the regions, are fewer than the configured regions; otherwise
\* it returns the cached data as read and makes no upstream call.
C8_SparseHeuristic ==
    \A w \in Workers :
        LET r == req[w]
        IN  AllRegionsRead(r) =>
              /\ r.recursed <=> r.cached < Cardinality(clients)
              /\ r.recursed => r.fetches = Cardinality(clients)
              /\ ~r.recursed =>
                    /\ r.pc = "done"
                    /\ r.fetches = 0 /\ r.upserts = 0
                    /\ r.resp.source = "database"
                    /\ DOMAIN r.resp.data = clients
                    /\ \A g \in clients :
                          \E now \in Clock :
                             r.resp.data[g] \in get_cached_campaigns(store, r.days, g, now)

\* a request for all regions has been served from the store with exactly as
\* many cached rows as there are configured regions, all in one region
C8_Witness ==
    \E w \in Workers :
        /\ AllRegionsRead(req[w])
        /\ req[w].pc = "done" /\ ~req[w].recursed
        /\ req[w].cached = Cardinality(clients)
        /\ \E g \in clients : Len(req[w].resp.data[g]) = 0

\* a request without force_refresh whose cache read found enough rows: one
\* region with at least one row in the window, or all regions with at least
\* as many rows as configured regions
CacheHit(r) ==
    /\ r.op = "dashboard" /\ ~r.force_refresh
    /\ \/ r.region # None /\ r.cached >= 1
       \/ r.region = None /\ r.cached >= Cardinality(clients)

\* C9: a request without force_refresh that does not turn into a forced
\* refresh (one region with at least one cached row in the window, or all
\* regions with at least as many rows as configured regions) leaves the
\* store unchanged in every step it takes, and writes nothing.
C9_ReadOnly ==
    [][\A w \in Workers :
          (req'[w] # req[w] /\ (CacheHit(req'[w]) \/ req'[w].pc = "read"))
             => /\ store' = store
                /\ req'[w].upserts = 0
                /\ req'[w].fetches = 0]_vars

\* a request has been served from a store that holds rows, the rows of the
\* requested region outside the window included
C9_Witness ==
    \E w \in Workers :
        /\ CacheHit(req[w]) /\ req[w].pc = "done"
        /\ req[w].region # None
        /\ req[w].resp.source = "database"
        /\ RowCount(Where(store, LAMBDA o : o.region = req[w].region)) > req[w].cached

--------------------------------------------------------------------------
(* The force_refresh branch of the dashboard endpoint *)

\* a request with force_refresh=true
Forced(r) == r.op = "dashboard" /\ r.force_refresh /\ r.pc # "idle"

\* the rows of the records fetched are in the store
FetchedStored(r) ==
    \A g \in DOMAIN r.fetched :
        \A i \in 1..Len(r.fetched[g]) : BagIn(RowOf(r.fetched[g][i], g), store)

\* C10: a request with force_refresh=true, whatever the store holds, performs
\* a live fetch, then upserts the fetched records into the store, and returns
\* the fetched data only after the upsert has returned.
C10_ForcedRefresh ==
    \A w \in Workers :
        LET r == req[w]
        IN  Forced(r) =>
              /\ r.fetches >= 1
              /\ r.pc # "done" => r.resp.source = None
              /\ r.pc \in {"respond", "done"} => r.upserts >= 1 /\ FetchedStored(r)
              /\ r.pc = "done" => ReturnsFetched(r)

--------------------------------------------------------------------------
(* The source tag of the response *)

\* a dashboard request that has answered
Answered(r) == r.op = "dashboard" /\ r.pc = "done"

\* C11: every response of the dashboard endpoint carries a source tag, which
\* is the tag of the store ("database" in the code, "cache" in the interface)
\* when the data returned was read from the store and the tag of the upstream
\* ("mailchimp" in the code, "live" in the interface) when it was fetched
\* during the request; the tag is that of the upstream if and only if a live
\* fetch was made while serving the request.
C11_SourceTag ==
    \A w \in Workers :
        LET r == req[w]
        IN  Answered(r) =>
              /\ r.resp.source \in {"database", "mailchimp"}
              /\ r.resp.source = "mailchimp" <=> r.fetches >= 1
              /\ r.resp.source = "database" => r.upserts = 0

--------------------------------------------------------------------------
(* The report aggregation *)

\* the entry the aggregation owes for input campaign j: the summary with the
\* metrics of its report, or the summary alone when its report fetch failed
Owed(a, j) ==
    IF a.outcome[j] = "report"
    THEN [k \in DOMAIN a.campaigns[j] \cup {"opens"} |->
             IF k = "opens" THEN "7" ELSE a.campaigns[j][k]]
    ELSE a.campaigns[j]

\* C12: for any list of campaign summaries and any subset of them whose
\* report fetch fails, the aggregation returns one entry per input campaign
\* (the same multiset of ids); an entry whose report fetch failed carries
\* exactly the summary fields and no metric field; the aggregation never
\* raises.
C12_Aggregation ==
    /\ agg.pc \in {"idle", "submit", "collect", "returned"}
    /\ agg.pc = "returned" =>
          /\ Len(agg.results) = Len(agg.campaigns)
          /\ BagOf([j \in 1..Len(agg.results) |-> IdOf(agg.results[j])])
                = BagOf([j \in 1..Len(agg.campaigns) |-> IdOf(agg.campaigns[j])])
          /\ BagOf(agg.results)
                = BagOf([j \in 1..Len(agg.campaigns) |-> Owed(agg, j)])

\* an aggregation of two batches has returned; report fetches failed in both
\* ways, others succeeded, and the results are not in input order
C12_Witness ==
    /\ agg.pc = "returned"
    /\ Len(agg.campaigns) = MaxCampaigns
    /\ \E j, k, l \in 1..Len(agg.campaigns) :
          /\ agg.outcome[j] = "none" /\ agg.outcome[k] = "raises"
          /\ agg.outcome[l] = "report"
    /\ IdOf(agg.results[1]) # IdOf(agg.campaigns[1])

\* task j has been started
Started(a, j) == a.status[j] \in {"running", "done", "collected"}

\* C13: during one aggregation at most PoolSize report fetches are in flight
\* at any moment, and no report fetch of a batch starts before every report
\* fetch of the batches before it has completed.
C13_BoundedPool ==
    /\ Cardinality(InFlight(agg)) <= PoolSize
    /\ \A j, k \in 1..Len(agg.campaigns) :
          ((j - 1) \div BatchSize < (k - 1) \div BatchSize /\ Started(agg, k))
              => agg.status[j] \in {"done", "collected"}

\* in the second batch the pool is full while a task of the batch waits
C13_Witness ==
    /\ agg.i > 0
    /\ Cardinality(InFlight(agg)) = PoolSize
    /\ \E j \in BatchOf(agg) : agg.status[j] = "queued"

--------------------------------------------------------------------------
(* The campaign listing *)

\* no page request but the first is issued once the campaigns gathered have
\* reached the upstream total or the cap, and the cap is never exceeded
ListingBounded ==
    /\ \A k \in 2..Len(listing.requests) :
          /\ listing.requests[k].gathered < listing.total_items
          /\ listing.requests[k].gathered < listing.count
    /\ Len(listing.all_campaigns) <= listing.count
    /\ Len(listing.result) <= listing.count

\* C14: get_campaigns terminates for every upstream total and every cap,
\* issues no further page request once the campaigns gathered have reached
\* the upstream total or the cap, and never returns more entries than the
\* cap.
C14_ListingTerminates ==
    /\ []ListingBounded
    /\ (listing.pc = "request") ~> (listing.pc = "returned")

\* a listing of three pages has stopped at its cap, below the upstream total
C14_Witness ==
    /\ listing.pc = "returned" /\ ~listing.failed
    /\ Len(listing.requests) = 3
    /\ Len(listing.result) = listing.count
    /\ listing.count < listing.total_items

\* C15: when a page request of get_campaigns fails, the whole listing is
\* aborted and no partial listing is returned: the campaigns gathered from
\* earlier pages do not reach the caller.
C15_NoPartialListing ==
    (listing.pc = "returned" /\ listing.failed) => Len(listing.result) = 0

--------------------------------------------------------------------------
(* The segment names *)

\* the keys that are a (list_id, segment_id) pair
SegmentPairs == {key \in SegmentKeys : key[1] # "" /\ key[2] # ""}

\* C16: over the lifetime of one client, across any number of listings (the
\* overlapping listings of threads that share the client included), the
\* segment endpoint is called exactly once per (list_id, segment_id) pair
\* that needs resolving; a failed lookup is cached as a placeholder name and
\* is never made again.
C16_SegmentOnce ==
    \A key \in SegmentPairs :
        /\ segs.calls[key] <= 1
        /\ key \in DOMAIN segs.cache => segs.calls[key] = 1

--------------------------------------------------------------------------
(* The lifetime of a row *)

\* the step is a clear_cache that covers the region
ClearsRegion(region) ==
    \E w \in Workers : ClearStep(w) /\ req'[w].region \in {None, region}

\* C17: a row (id, region) that is in the store stays in the store across
\* every forced refresh, cache read and self-healing refresh, those whose
\* upstream result no longer holds the campaign or is empty included; only a
\* clear_cache that covers its region removes it.
C17_RowsStay ==
    [][\/ store' = store
       \/ \A row \in Rows(store) :
             \/ \E kept \in Rows(store') :
                   kept.id = row.id /\ kept.region = row.region
             \/ ClearsRegion(row.region)]_vars

\* a forced refresh has answered, and the store holds a row of a region it
\* fetched whose campaign the upstream result did not hold
C17_Witness ==
    \E w \in Workers :
        /\ Forced(req[w]) /\ req[w].pc = "done" /\ req[w].upserts >= 1
        /\ \E row \in Rows(store) :
              /\ row.region \in DOMAIN req[w].fetched
              /\ \A i \in 1..Len(req[w].fetched[row.region]) :
                    IdOf(req[w].fetched[row.region][i]) # row.id

--------------------------------------------------------------------------
(* A region without client *)

\* the request names a region for which no client is configured
Unconfigured(r) ==
    /\ r.op \in {"dashboard", "audiences"}
    /\ r.region # None
    /\ get_client(r.region) = None

\* the response is the not-found error
IsNotFound(resp) == "status_code" \in DOMAIN resp /\ resp.status_code = 404

\* C18: a request that names a region for which no client is configured (the
\* dashboard with or without force_refresh, and the audience listing) is
\* answered with a not-found error, not with a successful response with empty
\* data, and it causes no upstream call and no store write.
C18_UnconfiguredRegion ==
    \A w \in Workers :
        LET r == req[w]
        IN  Unconfigured(r) =>
              /\ r.fetches = 0
              /\ \A row \in Rows(store) : row.region # r.region
              /\ r.pc = "done" => IsNotFound(r.resp)

--------------------------------------------------------------------------
(* The syncs of all regions *)

\* the sync has come to its end, by a return or by an exception
SyncEnded == sync.pc \in {"done", "raised"}

\* C19: in a background sync over all configured regions, a failure while
\* fetching or storing the data of one region is caught and logged, is not
\* surfaced to any caller, and does not prevent the remaining regions from
\* being fetched and upserted: no exception leaves the sync, the response of
\* the trigger is the same whatever fails, and at its end every region has
\* been fetched and every region but those that failed has been stored.
C19_SyncContinues ==
    SyncEnded =>
        /\ sync.pc = "done"
        /\ sync.kind = "sync" => sync.resp = [status |-> "Sync started for all regions"]
        /\ sync.fetched = clients
        /\ sync.stored = clients \ sync.failed

--------------------------------------------------------------------------
(* An upsert that is interrupted *)

\* the call that returned is the repetition of a call that was interrupted
Repeated == txn.pc = "returned" /\ txn.rerun

\* the table a complete upsert of the call would have produced
Complete == upsert_campaigns(txn.before, txn.campaigns_data, txn.region)

\* C20 as amended: upsert_campaigns is one transaction: if it is interrupted
\* (crash or error) after the first k records of a batch, none of their rows
\* is in the store, which is as it was before the call, and running the same
\* upsert again brings the store to the state a complete upsert would have
\* produced.
C20_UpsertAtomic ==
    /\ txn.pc = "interrupted" => store = txn.before
    /\ Repeated => store = Complete

\* C20 as stated: upsert is not transactional across the batch: if it is
\* interrupted after writing the first k records of a batch, the rows of
\* those k records are in the store and the rest are not, and running the
\* same upsert again brings the store to the state a complete upsert would
\* have produced.
C20_UpsertPartial ==
    /\ txn.pc = "interrupted" =>
          store = upsert_campaigns(txn.before, SubSeq(txn.campaigns_data, 1, txn.k),
                                   txn.region)
    /\ Repeated => store = Complete

\* an upsert of two records, interrupted after the first one, has been run
\* again and has changed the table
C20_Witness ==
    /\ Repeated
    /\ txn.k = 1 /\ Len(txn.campaigns_data) = 2
    /\ store # txn.before

--------------------------------------------------------------------------
(* The configured regions *)

\* the regions whose credentials, API key and server prefix, are present in
\* environment env
Credentialed(env) ==
    {g \in {RegionOrder[i] : i \in 1..Len(RegionOrder)} :
        Truthy(getenv(env, KeyVar(g))) /\ Truthy(getenv(env, PrefixVar(g)))}

\* the set of configured regions that environment env calls for
Configured(env) ==
    IF Credentialed(env) # {} THEN Credentialed(env)
    ELSE IF /\ Truthy(getenv(env, "MAILCHIMP_API_KEY"))
            /\ Truthy(getenv(env, "MAILCHIMP_SERVER_PREFIX"))
    THEN {"DEFAULT"}
    ELSE {}

\* C21: the set of configured regions is computed once, when the service is
\* built, as exactly the regions for which the credentials (API key and server
\* prefix) are present, with the single region DEFAULT only when no region has
\* credentials of its own; no operation changes the set afterwards, and the
\* service holds exactly one client per region of the set.
C21_ConfiguredRegions ==
    svc.pc = "built" =>
        /\ {svc.REGIONS[i] : i \in 1..Len(svc.REGIONS)} = Configured(svc.env0)
        /\ Cardinality(Configured(svc.env0)) = Len(svc.REGIONS)
        /\ DOMAIN svc.clients = Configured(svc.env0)
        /\ \A g \in DOMAIN svc.clients : svc.clients[g].region = g

--------------------------------------------------------------------------
(* A client without credentials *)

\* in environment env the API key or the server prefix of the region is
\* missing, its own and the default one
CredentialsMissing(env, region) ==
    \/ ~Truthy(getenv(env, KeyVar(region))) /\ ~Truthy(getenv(env, "MAILCHIMP_API_KEY"))
    \/ ~Truthy(getenv(env, PrefixVar(region))) /\
          ~Truthy(getenv(env, "MAILCHIMP_SERVER_PREFIX"))

\* a client has been built on its own, and maybe called
ClientBuilt == svc.last.op \in {"MailchimpClient"} \cup ClientOps

\* C22: constructing a client for a region whose credentials are missing
\* never raises; the client has fully empty routing and auth state (no base
\* URL, no admin URL, no headers), and every call on it (get_campaigns,
\* get_campaign_report, get_lists, get_growth_history) returns empty or null
\* data.
C22_ClientWithoutCredentials ==
    ClientBuilt /\ CredentialsMissing(svc.last.env, svc.last.region) =>
        /\ svc.last.client.base_url = << >>
        /\ svc.last.client.admin_url = << >>
        /\ svc.last.client.headers = {}
        /\ svc.last.op \in ClientOps => svc.last.result = EmptyResult(svc.last.op)

--------------------------------------------------------------------------
(* A forced refresh that raises *)

\* the response is a failure that carries no campaign data
IsFailure(resp) ==
    /\ "status_code" \in DOMAIN resp /\ resp.status_code = 500
    /\ "data" \notin DOMAIN resp

\* C23: a forced refresh (of one region or of all regions) that raises a hard
\* error is answered with exactly one failure response that carries no
\* campaign data; it is not retried (no fetch but the one that raised, no
\* further upsert) and no response with partial data is returned.
C23_HardError ==
    [][\A w \in Workers :
          req'[w].error =>
             /\ req'[w].pc = "done"
             /\ IsFailure(req'[w].resp)
             /\ req'[w].fetches <= Len(WriteOrder(req'[w]))
             /\ req[w].error => req'[w] = req[w]
             /\ ~req[w].error =>
                   /\ req[w].pc # "idle" => req'[w].fetches = req[w].fetches
                   /\ req'[w].upserts = req[w].upserts
                   /\ store' = store]_vars

\* a forced refresh of all regions has raised after it had written the
\* first region, and has answered
C23_Witness ==
    \E w \in Workers :
        /\ req[w].error /\ req[w].pc = "done"
        /\ req[w].region = None
        /\ req[w].upserts >= 1
        /\ store # EmptyBag

--------------------------------------------------------------------------
(* The retries of an upstream request *)

\* the attempts of the request that were followed by a retry
RetriedAttempts ==
    IF http.pc = "attempt" THEN 1..Len(http.history) ELSE 1..(Len(http.history) - 1)

\* an attempt that failed at connection level: no response was read
ConnectionFailure(outcome) ==
    outcome.kind \in {"connect_timeout", "read_timeout", "connection_error"}

\* C24 as amended: an upstream GET is retried at most 3 times after the first
\* attempt, and only when the attempt failed at connection level (connect
\* timeout, read timeout or connection error) or was answered with HTTP
\* 429/500/502/503/504, or with 413 and a Retry-After header; a
\* non-idempotent call is never retried; when the retries are exhausted the
\* client returns a null result to its caller instead of raising.
C24_Retries ==
    /\ Cardinality(RetriedAttempts) <= 3
    /\ \A i \in RetriedAttempts :
          \/ ConnectionFailure(http.history[i])
          \/ http.history[i].status \in {429, 500, 502, 503, 504}
          \/ http.history[i].status = 413 /\ http.history[i].has_retry_after
    /\ http.method \notin allowed_methods => RetriedAttempts = {}
    /\ http.pc # "raised"
    /\ http.pc = "returned" /\ Len(http.history) = 4 /\ http.raised # None =>
          http.result = None

\* C24 as stated: an upstream GET is retried at most 3 times after the first
\* attempt, and only on HTTP 429/500/502/503/504 or a connection timeout; a
\* non-idempotent call is never retried; when the retries are exhausted the
\* client returns a null result to its caller instead of raising.
C24_RetriesOnlyOnTimeout ==
    /\ Cardinality(RetriedAttempts) <= 3
    /\ \A i \in RetriedAttempts :
          \/ http.history[i].kind = "connect_timeout"
          \/ http.history[i].status \in {429, 500, 502, 503, 504}
    /\ http.method \notin allowed_methods => RetriedAttempts = {}
    /\ http.pc # "raised"
    /\ http.pc = "returned" /\ Len(http.history) = 4 /\ http.raised # None =>
          http.result = None

\* a GET has used its three retries, on a timeout and on statuses of the
\* list, and has returned None
C24_Witness ==
    /\ http.pc = "returned" /\ Len(http.history) = 4
    /\ http.history[1].kind = "connect_timeout"
    /\ http.history[2].status = 503
    /\ http.history[4].status = 429
    /\ http.result = None

--------------------------------------------------------------------------
(* The statistics of the cache *)

\* the rows of the table that carry region g, counted row by row
RowsOfRegion(g) ==
    Sum([r \in {o \in Rows(store) : o.region = g} |-> CopiesIn(r, store)])

\* C25: in every reachable state of the store, the statistics just returned
\* have total equal to the number of rows of the table, by_region maps each
\* region that has rows (and no other) to the number of its rows, and the
\* counts of by_region sum to total.
C25_CacheStats ==
    \A w \in Workers :
        req[w].op = "get_cache_stats" /\ req[w].pc = "done" =>
            LET stats == req[w].resp
            IN  /\ stats.total = Sum([r \in Rows(store) |-> CopiesIn(r, store)])
                /\ DOMAIN stats.by_region = {r.region : r \in Rows(store)}
                /\ \A g \in DOMAIN stats.by_region :
                      stats.by_region[g] = RowsOfRegion(g)
                /\ Sum(stats.by_region) = stats.total

\* the statistics were returned for a table that holds rows of two regions,
\* two of them equal (campaigns without id)
C25_Witness ==
    \E w \in Workers :
        /\ req[w].op = "get_cache_stats" /\ req[w].pc = "done"
        /\ Cardinality(DOMAIN req[w].resp.by_region) = 2
        /\ \E r \in Rows(store) : CopiesIn(r, store) = 2

--------------------------------------------------------------------------
(* The region of a stored campaign *)

\* the rows of the table that carry region g, as a bag
RegionRows(tbl, g) == [r \in {o \in Rows(tbl) : o.region = g} |-> CopiesIn(r, tbl)]

--------------------------------------------------------------------------
(* The live fetches of one dashboard request *)

\* the live fetches one request may make: one per region it asks for
FetchLimit(r) == IF r.region # None THEN 1 ELSE Len(REGIONS)

\* the request of worker w has begun and has not answered yet
Answering(w) == req[w].pc \in {"read", "upsert", "respond"}

\* the steps a request has still to take, at most: the cache reads of the
\* regions left, the upserts of the regions left, the answer
Rank(r) ==
    CASE r.pc = "read" -> (Len(REGIONS) - r.idx + 1) + Len(REGIONS) + 1
      [] r.pc = "upsert" -> (Len(WriteOrder(r)) - r.idx + 1) + 1
      [] r.pc = "respond" -> 1
      [] OTHER -> 0

\* C27: every dashboard request terminates after at most one live fetch per
\* region: it makes no fetch before its cache read is over, the step that
\* begins the forced refresh (the self-healing transition included) is the
\* only one that fetches, no step after it fetches or recurses again, whether
\* the refresh returned data, returned nothing or failed, and a request that
\* has not answered always has a next step, each of which brings it nearer to
\* its answer.
C27_OneFetch ==
    [][\A w \in Workers :
         /\ req'[w].fetches <= FetchLimit(req'[w])
         /\ req'[w].pc = "read" => req'[w].fetches = 0 /\ ~req'[w].recursed
         /\ req[w].pc \in {"upsert", "respond", "done"} =>
               \/ req'[w] = Idle
               \/ /\ req'[w].seq = req[w].seq
                  /\ req'[w].fetches = req[w].fetches
                  /\ req'[w].recursed = req[w].recursed
                  /\ req'[w].pc \in {"upsert", "respond", "done"}
         /\ Answering(w) => Rank(req'[w]) < Rank(req[w])
         /\ Answering(w)' => (ENABLED HealStep)']_vars

\* a request that found the cache empty has refreshed once, got nothing from
\* upstream, and has answered
C27_Witness ==
    \E w \in Workers :
        /\ req[w].pc = "done" /\ req[w].recursed /\ ~req[w].error
        /\ req[w].region = None
        /\ req[w].fetches = Len(REGIONS)
        /\ \A g \in DOMAIN req[w].resp.data : req[w].resp.data[g] = << >>

--------------------------------------------------------------------------
(* The pages of a listing *)

\* the upstream listing up to its n-th campaign
UpstreamPrefix(n) == SubSeq(Summaries(listing.total_items), 1, n)

\* C28: in get_campaigns the offset of each page request equals the number of
\* upstream campaigns the pages before it have consumed, so that the pages
\* cover a contiguous prefix of the upstream listing without overlap: the
\* campaigns gathered are that prefix (none listed twice) and, when the
\* upstream total does not exceed the cap and no request fails, the listing
\* returned is the whole upstream listing (none skipped), even when a page
\* returns fewer entries than requested.
C28_ContiguousPages ==
    /\ \A k \in 1..Len(listing.requests) :
          listing.requests[k].offset = listing.requests[k].gathered
    /\ Len(listing.all_campaigns) <= listing.total_items
    /\ listing.all_campaigns = UpstreamPrefix(Len(listing.all_campaigns))
    /\ (/\ listing.pc = "returned" /\ ~listing.failed
        /\ listing.total_items <= listing.count) =>
           listing.result = Summaries(listing.total_items)

--------------------------------------------------------------------------
(* The admins of the users table *)

\* the admins of the table
Admins == {id \in DOMAIN users.rows : users.rows[id].role = "admin"}

\* the request of thread t was made by an admin upon themselves
UponSelf(t) ==
    /\ users.thread[t].pc # "idle"
    /\ users.thread[t].admin_id # NoUser
    /\ users.thread[t].user_id = users.thread[t].admin_id

\* C29: after any sequence of user-management requests of authenticated
\* admins (create_user, update_user_role, delete_user, reset_user_password),
\* those of two admins who act on each other in overlapping requests
\* included, the users table holds at least one admin; delete_user refuses
\* to delete the acting admin and update_user_role refuses to change the
\* acting admin's own role.
C29_AdminRemains ==
    /\ Admins # {}
    /\ \A t \in Threads :
          (UponSelf(t) /\ users.thread[t].op \in {"delete_user", "update_user_role"}) =>
             /\ users.thread[t].pc = "done"
             /\ "error" \in DOMAIN users.thread[t].result

--------------------------------------------------------------------------
(* The disclosure of a shared link *)

\* the step is an access to a shared link: no link is created, and the
\* table or the last answer changes
AccessStep ==
    /\ Len(links'.rows) = Len(links.rows)
    /\ links'.rows # links.rows \/ links'.last # links.last

\* the answer discloses a filter state
Discloses(answer) == "filter_state" \in DOMAIN answer

\* the link was created without password (none, or the empty one)
NoPassword(row) == row.secret = None \/ row.secret = ""

\* C30: the filter state of a shared link is disclosed only when the link
\* exists, has not expired at the time of the access, and either has no
\* password or the password supplied is the one it was created with; the
\* filter state disclosed is the one the link was created with; access_count
\* grows by exactly one on each disclosure and no refused access changes the
\* table.
C30_Disclosure ==
    [][AccessStep =>
         LET access == links'.last
             token == access.token
         IN  IF Discloses(access.result)
             THEN /\ token \in DOMAIN links.rows
                  /\ LET row == links.rows[token]
                     IN  /\ \/ row.expires_at = << >>
                            \/ NotEarlier(fromisoformat(row.expires_at), access.now)
                         /\ \/ NoPassword(row)
                            \/ access.password # None /\ access.password = row.secret
                         /\ \E filter_state \in FilterStates :
                               /\ row.filter_state = DumpsFilter(filter_state)
                               /\ access.result.filter_state = filter_state
                         /\ links'.rows[token].access_count = row.access_count + 1
                  /\ \A other \in DOMAIN links.rows \ {token} :
                        links'.rows[other] = links.rows[other]
             ELSE links'.rows = links.rows]_vars

\* a link with a password and an expiration has been opened twice with its
\* password
C30_Witness ==
    /\ links.last.op = "verify_share_link_password"
    /\ Discloses(links.last.result)
    /\ links.last.token \in DOMAIN links.rows
    /\ links.rows[links.last.token].secret = "p"
    /\ links.rows[links.last.token].expires_at # << >>
    /\ links.rows[links.last.token].access_count = 2

====
